---- MODULE Spec2Model ----
(***************************************************************************)
(* Paired latency experiment of svm-rpc-latency: runTests drives           *)
(* `iterations` trials one after another; each trial (runSimultaneousPair) *)
(* dispatches a preflight transaction and a skip-preflight transaction     *)
(* concurrently (sendAndTrackTransaction), joins them with                 *)
(* Promise.allSettled and appends both outcomes to allResults.             *)
(*                                                                         *)
(* The repository holds two revisions of the paired runner:                *)
(*   "index"    src/src/index.ts lines 271-645: sendAndTrackTransaction    *)
(*              catches the submit error itself; runSimultaneousPair draws *)
(*              randomOrder.                                               *)
(*   "part_000" src/unnamed/part_000: the submit error rejects the arm's   *)
(*              promise; no randomOrder.                                   *)
(* The variable revision, fixed in Init, says which one runs.              *)
(*                                                                         *)
(* Building a trial's transactions (new Transaction().add(               *)
(* SystemProgram.transfer(...))) may throw; the error escapes              *)
(* runSimultaneousPair and runTests and reaches main's catch.              *)
(*                                                                         *)
(* Wall-clock readings are abstracted to the elapsed time endMs - startMs  *)
(* of the submit-and-confirm call, an input of SubmitConfirmed.            *)
(***************************************************************************)
EXTENDS Integers, Sequences, FiniteSets, TLC

\* ---------------------------------------------------------------- bounds

\* config.iterations of the modelled run
Iterations == 2

\* const maxRetries = 3
maxRetries == 3

\* DEFAULT_CONFIG.amountLamports
amountLamports == 1

Trials == 0 .. (Iterations - 1)

Revisions == {"index", "part_000"}

\* The two arms; an arm is identified by its skipPreflight flag.
Arms == {"preflight", "skip"}

SkipPreflight(a) == a = "skip"

Other(a) == IF a = "preflight" THEN "skip" ELSE "preflight"

\* Elapsed times endMs - startMs the transport may take to confirm
Durations == {100}

\* Messages of the errors sendAndConfirmTransaction may throw
ErrorMessages == {"blockhash not found", "node is unhealthy"}

\* the errors the submit call of arm a can raise: the preflight simulation,
\* which reports an unknown blockhash, is not run with skipPreflight = true
SubmitErrors(a) == IF a = "preflight" THEN ErrorMessages ELSE {"node is unhealthy"}

\* Slots connection.getTransaction may report
Slots == {0, 7}

\* What connection.getTransaction may return: null, or a status with a slot
LookupResponses ==
  {[found |-> FALSE, slot |-> 0]} \cup {[found |-> TRUE, slot |-> s] : s \in Slots}

VARIABLES
  revision,     \* which revision of the paired runner runs
  phase,        \* runTests: "ready", "awaiting", "delay", "complete", "saved", "failed"
  i,            \* runTests: loop variable
  pc,           \* pc[t][a]: state of the promise of arm a of trial t
  result,       \* result[t][a]: the result object of sendAndTrackTransaction
  thrown,       \* thrown[t][a]: message of the error the submit call raised, "" if none
  attempt,      \* attempt[a]: loop variable of the slot retry loop of arm a
  lookups,      \* lookups[a]: getTransaction calls issued by arm a in the trial in progress
  sleeps,       \* sleeps[a]: 1 s pauses started by arm a in the trial in progress
  randomOrder,  \* runSimultaneousPair: Math.random() < 0.5
  issued,       \* arms whose submit call was issued in the trial in progress, in program order
  allResults,   \* runTests: the result list
  tx,           \* tx[t][a]: the transfer built for arm a of trial t
  firstToken,   \* firstToken[a]: the first integer slot a lookup of arm a returned
                \* in the trial in progress, as a set of at most one element
  escaped,      \* message of the error that reached main's catch, "" if none
  preflightResults,  \* runTests: allResults.filter(r => !r.skipPreflight)
  skipResults,       \* runTests: allResults.filter(r => r.skipPreflight)
  analysis,     \* runTests: what analyzeResults returned, as a set of at most one element
  files,        \* the result files written
  report,       \* printSummary: the sections printed, in order
  sample1,      \* statistics.ts on its own: the first (or only) argument
  sample2,      \* statistics.ts on its own: the second argument
  statistics,   \* statistics[k]: what calculateStatistics returned for sample k,
                \* as a set of at most one element
  tTest,        \* what welchTTest(sample1, sample2) returned, at most one element
  effectSize,   \* what cohensD(sample1, sample2) returned, at most one element
  stub,         \* the constant answers of a transport that always succeeds:
                \* trials n, durations a (preflight), b (skip), slots s, t
  balance       \* runTests before the loop: balance[p] is the local balance of
                \* payer p, as getBalance last returned it

\* the arguments and results of the functions of statistics.ts called on
\* their own, and the constant transport
statsVars == <<sample1, sample2, statistics, tTest, effectSize, stub, balance>>

\* the variables the trial loop leaves alone
analysisVars == <<preflightResults, skipResults, analysis, files, report, statsVars>>

vars ==
  <<revision, phase, i, pc, result, thrown, attempt, lookups, sleeps,
    randomOrder, issued, allResults, tx, firstToken, escaped, analysisVars>>

\* ------------------------------------------------------- result objects

HasField(r, f) == f \in DOMAIN r

\* JavaScript truthiness of txStatus?.slot
SlotTruthy(resp) == resp.found /\ resp.slot # 0

\* const result: TransactionResult = {...}
NewResult(t, a) ==
  [iteration |-> t, skipPreflight |-> SkipPreflight(a),
   submissionDurationMs |-> 0, success |-> FALSE]

Signature(t, a) == <<"sig", t, a>>

\* result.submissionDurationMs = ...; result.totalDurationMs = ...;
\* result.signature = signature; result.success = true
ConfirmedResult(r, d, sig) ==
  [r EXCEPT !.submissionDurationMs = d, !.success = TRUE]
    @@ ("totalDurationMs" :> d) @@ ("signature" :> sig)

\* result.slot = txStatus.slot
WithSlot(r, s) == r @@ ("slot" :> s)

\* the object built for a rejected promise
RejectedResult(t, a, message) ==
  [iteration |-> t, skipPreflight |-> SkipPreflight(a),
   submissionDurationMs |-> 0, success |-> FALSE] @@ ("error" :> message)

Settled(t, a) == pc[t][a] \in {"fulfilled", "rejected"}

\* no transfer built yet
NoTx == [payer |-> "", recipient |-> "", lamports |-> 0]

\* SystemProgram.transfer({fromPubkey, toPubkey, lamports}) of arm a of trial t.
\* "index": payer1 -> recipient1 and payer2 -> recipient2, both of
\* amountLamports + iteration; "part_000": one payer and recipient,
\* amountLamports for the preflight arm and amountLamports + 1 for the skip arm.
BuildTx(rev, t, a) ==
  IF rev = "index"
    THEN [payer |-> IF a = "preflight" THEN "payer1" ELSE "payer2",
          recipient |-> IF a = "preflight" THEN "recipient1" ELSE "recipient2",
          lamports |-> amountLamports + t]
    ELSE [payer |-> "payer", recipient |-> "recipient",
          lamports |-> IF a = "preflight" THEN amountLamports ELSE amountLamports + 1]

\* message of an error raised while a trial's transactions are built
BuildError == "transaction build failed"

\* no constant transport in use
NoStub == [n |-> 0, a |-> 0, b |-> 0, s |-> 0, t |-> 0]

\* no balance read yet
NoBalance == <<>>

\* ------------------------------------------------ sendAndTrackTransaction

\* mutant: the loop condition is off by one
LoopAllowsOneMore(n) == n <= maxRetries

\* for (let attempt = 0; attempt < maxRetries; attempt++)
LoopAllows(n) == n < maxRetries

\* The retry loop reaches its condition with attempt = n and result object r:
\* either the next connection.getTransaction call is issued, or the loop is
\* over and the function returns result.
EnterAttempt(t, a, n, r) ==
  /\ attempt' = [attempt EXCEPT ![a] = n]
  /\ result' = [result EXCEPT ![t][a] = r]
  /\ IF LoopAllows(n)
       THEN /\ pc' = [pc EXCEPT ![t][a] = "lookup"]
            /\ lookups' = [lookups EXCEPT ![a] = @ + 1]
       ELSE /\ pc' = [pc EXCEPT ![t][a] = "fulfilled"]
            /\ UNCHANGED lookups

\* mutant: the break is missing, the loop goes on after recording the slot
NoBreak(t, a, r) == EnterAttempt(t, a, attempt[a] + 1, r)

\* result.slot = txStatus.slot; break;   (then: return result)
Break(t, a, r) ==
  /\ result' = [result EXCEPT ![t][a] = r]
  /\ pc' = [pc EXCEPT ![t][a] = "fulfilled"]
  /\ UNCHANGED <<attempt, lookups>>

\* mutant: the submit call is issued again when it throws
OnSubmitErrorRedispatch(rev) == "inflight"

\* What becomes of the arm's promise when sendAndConfirmTransaction throws:
\* revision "index" catches and returns result, "part_000" lets it propagate.
OnSubmitError(rev) == IF rev = "index" THEN "fulfilled" ELSE "rejected"

\* mutant: no catch around the lookup, its error rejects the arm's promise
OnLookupErrorPropagates(t, a) ==
  /\ pc' = [pc EXCEPT ![t][a] = "rejected"]
  /\ UNCHANGED <<attempt, lookups, sleeps, result>>

\* mutant: the catch after the last attempt turns the success into a failure
OnLookupErrorMarksFailed(t, a) ==
  IF attempt[a] < maxRetries - 1
    THEN /\ pc' = [pc EXCEPT ![t][a] = "sleeping"]
         /\ sleeps' = [sleeps EXCEPT ![a] = @ + 1]
         /\ UNCHANGED <<attempt, lookups, result>>
    ELSE /\ EnterAttempt(t, a, attempt[a] + 1, [result[t][a] EXCEPT !.success = FALSE])
         /\ UNCHANGED sleeps

\* catch (error) of the retry loop: pause before the next attempt, except
\* after the last one
OnLookupError(t, a) ==
  IF attempt[a] < maxRetries - 1
    THEN /\ pc' = [pc EXCEPT ![t][a] = "sleeping"]
         /\ sleeps' = [sleeps EXCEPT ![a] = @ + 1]
         /\ UNCHANGED <<attempt, lookups, result>>
    ELSE /\ EnterAttempt(t, a, attempt[a] + 1, result[t][a])
         /\ UNCHANGED sleeps

\* sendAndConfirmTransaction resolves with a signature after d ms
SubmitConfirmed(t, a, d) ==
  /\ pc[t][a] = "inflight"
  /\ EnterAttempt(t, a, 0, ConfirmedResult(result[t][a], d, Signature(t, a)))
  /\ UNCHANGED <<revision, phase, i, thrown, sleeps, randomOrder, issued, allResults,
                 tx, firstToken, escaped, analysisVars>>

\* sendAndConfirmTransaction throws an error with the given message
SubmitFails(t, a, message) ==
  /\ pc[t][a] = "inflight"
  /\ thrown' = [thrown EXCEPT ![t][a] = message]
  /\ pc' = [pc EXCEPT ![t][a] = OnSubmitError(revision)]
  /\ UNCHANGED <<revision, phase, i, result, attempt, lookups, sleeps,
                 randomOrder, issued, allResults, tx, firstToken, escaped, analysisVars>>

\* the first integer slot the lookups of an arm returned: seen so far, then resp
FirstOf(seen, resp) == IF seen = {} /\ resp.found THEN {resp.slot} ELSE seen

\* connection.getTransaction resolves with resp
LookupReturns(t, a, resp) ==
  /\ pc[t][a] = "lookup"
  /\ IF SlotTruthy(resp)
       THEN Break(t, a, WithSlot(result[t][a], resp.slot))
       ELSE EnterAttempt(t, a, attempt[a] + 1, result[t][a])
  /\ firstToken' = [firstToken EXCEPT ![a] = FirstOf(@, resp)]
  /\ UNCHANGED <<revision, phase, i, thrown, sleeps, randomOrder, issued, allResults,
                 tx, escaped, analysisVars>>

\* connection.getTransaction throws
LookupThrows(t, a) ==
  /\ pc[t][a] = "lookup"
  /\ OnLookupError(t, a)
  /\ UNCHANGED <<revision, phase, i, thrown, randomOrder, issued, allResults,
                 tx, firstToken, escaped, analysisVars>>

\* the 1000 ms timer of the catch block fires
SleepEnds(t, a) ==
  /\ pc[t][a] = "sleeping"
  /\ EnterAttempt(t, a, attempt[a] + 1, result[t][a])
  /\ UNCHANGED <<revision, phase, i, thrown, sleeps, randomOrder, issued, allResults,
                 tx, firstToken, escaped, analysisVars>>

\* ---------------------------------------------------- runSimultaneousPair

\* mutant: the first arm is awaited before the second is dispatched
StartPairAwaitFirst(t) ==
  /\ pc' = [pc EXCEPT ![t]["preflight"] = "inflight"]
  /\ result' = [result EXCEPT ![t] = [a \in Arms |-> NewResult(t, a)]]
  /\ issued' = <<"preflight">>
  /\ randomOrder' \in (IF revision = "index" THEN BOOLEAN ELSE {TRUE})
  /\ attempt' = [a \in Arms |-> 0]
  /\ lookups' = [a \in Arms |-> 0]
  /\ sleeps' = [a \in Arms |-> 0]
  /\ tx' = [tx EXCEPT ![t] = [a \in Arms |-> BuildTx(revision, t, a)]]
  /\ firstToken' = [a \in Arms |-> {}]

\* Both sendAndTrackTransaction calls are made before the await: each runs
\* synchronously up to its submit call, the preflight one first.
StartPair(t) ==
  /\ pc' = [pc EXCEPT ![t] = [a \in Arms |-> "inflight"]]
  /\ result' = [result EXCEPT ![t] = [a \in Arms |-> NewResult(t, a)]]
  /\ issued' = <<"preflight", "skip">>
  /\ randomOrder' \in (IF revision = "index" THEN BOOLEAN ELSE {TRUE})
  /\ attempt' = [a \in Arms |-> 0]
  /\ lookups' = [a \in Arms |-> 0]
  /\ sleeps' = [a \in Arms |-> 0]
  /\ tx' = [tx EXCEPT ![t] = [a \in Arms |-> BuildTx(revision, t, a)]]
  /\ firstToken' = [a \in Arms |-> {}]

\* mutant: the join resolves as soon as one promise has settled
PairSettledAny(t) == \E a \in Arms : Settled(t, a)

\* mutant: runSimultaneousPair's result is used without awaiting the join
PairNotAwaited(t) == TRUE

\* Promise.allSettled resolves once every promise of the array has settled
PairSettled(t) == \A a \in Arms : Settled(t, a)

\* mutant: the join is Promise.all, which rejects when a promise rejects
JoinThrowsOnRejection(t) == \E a \in Arms : pc[t][a] = "rejected"

\* Promise.allSettled never rejects
JoinThrows(t) == FALSE

\* the settlement record Promise.allSettled reports for an arm
Settlement(t, a) ==
  IF pc[t][a] = "fulfilled"
    THEN [status |-> "fulfilled", value |-> result[t][a]]
    ELSE [status |-> "rejected", reason |-> thrown[t][a]]

\* randomOrder ? [preflightPromise, skipPromise] : [skipPromise, preflightPromise]
PromiseOrder(ro) == IF ro THEN <<"preflight", "skip">> ELSE <<"skip", "preflight">>

\* const [firstResult, secondResult] = await Promise.allSettled(...)
SettledArray(t, ro) == [k \in 1 .. 2 |-> Settlement(t, PromiseOrder(ro)[k])]

\* mutant: the settlements are taken in the order they were joined
DestructureAsJoined(arr, ro) == <<arr[1], arr[2]>>

\* const [preflightResult, skipResult] =
\*   randomOrder ? [firstResult, secondResult] : [secondResult, firstResult]
Destructure(arr, ro) == IF ro THEN <<arr[1], arr[2]>> ELSE <<arr[2], arr[1]>>

\* x.status === 'fulfilled' ? x.value : {..., success: false, error: reason.message}
ToResult(t, a, s) ==
  IF s.status = "fulfilled" THEN s.value ELSE RejectedResult(t, a, s.reason)

\* mutant: the pair is returned in the order the promises were joined
PairOfJoinOrder(t, ro) ==
  LET arr == SettledArray(t, ro)
      first == IF ro THEN "preflight" ELSE "skip"
  IN  <<ToResult(t, first, arr[1]), ToResult(t, Other(first), arr[2])>>

\* return [resultPreflight, resultSkip]
PairOf(t, ro) ==
  LET d == Destructure(SettledArray(t, ro), ro)
  IN  <<ToResult(t, "preflight", d[1]), ToResult(t, "skip", d[2])>>

\* ------------------------------------------------------------- runTests

\* mutant: the error of a trial is caught inside the loop, which goes on
AfterTrialErrorContinue == "delay"

\* main: catch (error) { console.error(...); process.exit(1); }
AfterTrialError == "failed"

\* the error a rejecting join would hand to runTests
JoinError(t) ==
  LET rej == {a \in Arms : pc[t][a] = "rejected"}
  IN  IF rej = {} THEN "join" ELSE thrown[t][CHOOSE a \in rej : TRUE]

\* runSimultaneousPair throws while it builds the transactions of trial n:
\* nothing is dispatched, the error propagates out of runTests
TrialThrows(n) ==
  /\ escaped' = BuildError
  /\ phase' = AfterTrialError
  /\ UNCHANGED <<pc, result, issued, randomOrder, attempt, lookups, sleeps,
                 tx, firstToken>>

\* The for loop reaches its condition with i = n: the next pair is started
\* (or building it throws), or the loop is over.
LoopStep(n) ==
  /\ i' = n
  /\ IF n < Iterations
       THEN \/ /\ StartPair(n)
               /\ phase' = "awaiting"
               /\ UNCHANGED escaped
            \/ TrialThrows(n)
       ELSE /\ phase' = "complete"
            /\ UNCHANGED <<pc, result, issued, randomOrder, attempt, lookups, sleeps,
                           tx, firstToken, escaped>>

\* runTests enters the trial loop
RunTests ==
  /\ phase = "ready"
  /\ LoopStep(0)
  /\ UNCHANGED <<revision, thrown, allResults, analysisVars>>

\* await runSimultaneousPair(...) resumes: allResults.push(a, b), then the
\* inter-pair delay starts. An error escaping the pair ends the run (main's
\* catch: process.exit(1)).
JoinPair ==
  /\ phase = "awaiting"
  /\ PairSettled(i)
  /\ IF JoinThrows(i)
       THEN /\ phase' = AfterTrialError
            /\ escaped' = JoinError(i)
            /\ UNCHANGED allResults
       ELSE /\ phase' = "delay"
            /\ allResults' = allResults \o PairOf(i, randomOrder)
            /\ UNCHANGED escaped
  /\ UNCHANGED <<revision, i, pc, result, thrown, attempt, lookups, sleeps,
                 randomOrder, issued, tx, firstToken, analysisVars>>

\* the delay between pairs is over: i++, next turn of the loop
DelayEnds ==
  /\ phase = "delay"
  /\ LoopStep(i + 1)
  /\ UNCHANGED <<revision, thrown, allResults, analysisVars>>

\* -------------------------------------------------- calculateStatistics
\*
\* Numbers.  Durations and slots are integers.  A value the code rounds with
\* Math.round(x * 100) / 100 is held as the integer Math.round(x * 100), that
\* is in hundredths; arithmetic is exact where the code's is floating point.
\* A quotient is held as a record [n, d] with d >= 0: d = 0 is what the
\* division by zero gives in JavaScript, NaN for 0/0 and an infinity of the
\* sign of n otherwise.

Min(x, y) == IF x < y THEN x ELSE y
Max(x, y) == IF x < y THEN y ELSE x

\* Math.round(n / d) for d > 0: halves go up
Round(n, d) == (2 * n + d) \div (2 * d)

\* mutant: Math.floor(n / d)
FloorOf(n, d) == n \div d

\* Math.ceil(n / d) for d > 0
Ceil(n, d) == -((-n) \div d)

\* reduce((acc, val) => acc + val, 0)
RECURSIVE Sum(_)
Sum(xs) == IF xs = <<>> THEN 0 ELSE xs[1] + Sum(Tail(xs))

\* the values in the order given
Unsorted(values) == values

\* [...values].sort((a, b) => a - b)
Sorted(values) == SortSeq(values, LAMBDA x, y : x < y)

\* a percentile taken midway between the ranked value and the one before
PercentileInterpolated(sorted, p) ==
  LET rank == Max(0, Ceil(p * Len(sorted), 100) - 1) + 1
  IN  (sorted[rank] + sorted[Max(1, rank - 1)]) \div 2

\* percentile(p): sorted[Math.max(0, Math.ceil((p / 100) * count) - 1)]
Percentile(sorted, p) == sorted[Max(0, Ceil(p * Len(sorted), 100) - 1) + 1]

\* count * count * variance, where variance is the mean of the squared
\* differences from the mean: count * sum of squares - (sum squared)
ScaledVariance(xs) ==
  Len(xs) * Sum([k \in DOMAIN xs |-> xs[k] * xs[k]]) - Sum(xs) * Sum(xs)

\* Math.round(Math.sqrt(w) / count * 100): the largest r with r = 0 or
\* (r - 1/2) * count / 100 <= sqrt(w); it is at most 50 * (max - min) + 1
\* (found by bisection, r = lo being known to qualify)
RECURSIVE RootBetween(_, _, _, _)
RootBetween(w, count, lo, hi) ==
  IF lo = hi THEN lo
  ELSE LET mid == (lo + hi + 1) \div 2
       IN  IF (2 * mid - 1) * (2 * mid - 1) * count * count <= 40000 * w
             THEN RootBetween(w, count, mid, hi)
             ELSE RootBetween(w, count, lo, mid - 1)

RoundedRoot(w, count, range) == RootBetween(w, count, 0, 50 * range + 1)

\* the largest distance between two values: no standard deviation exceeds it
Spread(xs) ==
  LET vs == {xs[k] : k \in DOMAIN xs}
  IN  (CHOOSE v \in vs : \A w \in vs : w <= v) - (CHOOSE v \in vs : \A w \in vs : v <= w)

\* the Statistics of the list holding one zero
StatisticsOfZero ==
  [count |-> 1, min |-> 0, max |-> 0, mean |-> 0, median |-> 0, p95 |-> 0,
   p99 |-> 0, stdDev |-> 0]

\* the Statistics of the empty list
EmptyStatistics ==
  [count |-> 0, min |-> 0, max |-> 0, mean |-> 0, median |-> 0,
   p95 |-> 0, p99 |-> 0, stdDev |-> 0]

\* calculateStatistics(values); mean and stdDev are in hundredths
CalculateStatistics(values) ==
  IF Len(values) = 0 THEN EmptyStatistics
  ELSE LET sorted == Sorted(values)
           count == Len(sorted)
       IN  [count |-> count,
            min |-> sorted[1],
            max |-> sorted[count],
            mean |-> Round(100 * Sum(sorted), count),
            median |-> sorted[(count \div 2) + 1],
            p95 |-> Percentile(sorted, 95),
            p99 |-> Percentile(sorted, 99),
            stdDev |-> RoundedRoot(ScaledVariance(sorted), count, Spread(sorted))]

\* ------------------------------------------------------- analyzeResults

\* rs.filter(r => r.success)
Successful(rs) == SelectSeq(rs, LAMBDA r : r.success)

\* successful.map(r => r.totalDurationMs).filter(d => d !== undefined)
TotalDurations(rs) ==
  LET timed == SelectSeq(Successful(rs), LAMBDA r : HasField(r, "totalDurationMs"))
  IN  [k \in 1 .. Len(timed) |-> timed[k].totalDurationMs]

\* Math.min(successfulPreflight.length, successfulSkip.length)
MinLength(preflight, skip) == Min(Len(Successful(preflight)), Len(Successful(skip)))

\* mutant: the difference taken the other way round
LatencyDeltaReversed(p, s) == s.totalDurationMs - p.totalDurationMs

\* preflightDuration - skipDuration
LatencyDelta(p, s) == p.totalDurationMs - s.totalDurationMs

\* mutant: the difference taken the other way round
SlotDeltaReversed(p, s) == p.slot - s.slot

\* skipSlot - preflightSlot
SlotDelta(p, s) == s.slot - p.slot

\* preflightSlot !== undefined && skipSlot !== undefined
BothSlots(p, s) == HasField(p, "slot") /\ HasField(s, "slot")

\* preflightDuration !== undefined && skipDuration !== undefined
BothDurations(p, s) == HasField(p, "totalDurationMs") /\ HasField(s, "totalDurationMs")

\* totalLatencyDiff after n rounds of the for loop over the success-filtered lists
RECURSIVE TotalLatencyDiff(_, _, _)
TotalLatencyDiff(sp, ss, n) ==
  IF n = 0 THEN <<>>
  ELSE LET prev == TotalLatencyDiff(sp, ss, n - 1)
       IN  IF BothDurations(sp[n], ss[n])
             THEN Append(prev, LatencyDelta(sp[n], ss[n]))
             ELSE prev

\* slotDiff after n rounds of the for loop over the success-filtered lists
RECURSIVE SlotDiff(_, _, _)
SlotDiff(sp, ss, n) ==
  IF n = 0 THEN <<>>
  ELSE LET prev == SlotDiff(sp, ss, n - 1)
       IN  IF BothSlots(sp[n], ss[n])
             THEN Append(prev, SlotDelta(sp[n], ss[n]))
             ELSE prev

\* mutant: one arm with two samples is enough
HasEnoughSamplesEither(n1, n2) == n1 >= 2 \/ n2 >= 2

\* totalPreflight.length >= 2 && totalSkip.length >= 2
HasEnoughSamples(n1, n2) == n1 >= 2 /\ n2 >= 2

\* 0 / 0
NaN == [n |-> 0, d |-> 0]

IsNaN(x) == x.d = 0 /\ x.n = 0

Sign(n) == IF n > 0 THEN 1 ELSE IF n < 0 THEN -1 ELSE 0

\* x - y on quotients
Minus(x, y) ==
  IF x.d > 0 /\ y.d > 0 THEN [n |-> x.n * y.d - y.n * x.d, d |-> x.d * y.d]
  ELSE IF IsNaN(x) \/ IsNaN(y) THEN NaN
  ELSE IF x.d = 0 /\ y.d = 0 THEN (IF Sign(x.n) = Sign(y.n) THEN NaN ELSE x)
  ELSE IF x.d = 0 THEN x
  ELSE [n |-> -y.n, d |-> 0]

\* mutant: the rate of the failures
FailureRate(successCount, total) == [n |-> 100 * (total - successCount), d |-> total]

\* (successful.length / all.length) * 100
SuccessRate(successCount, total) == [n |-> 100 * successCount, d |-> total]

\* values.length > 0 ? calculateStatistics(values) : undefined, undefined
\* being the empty set
StatisticsOrUndefined(values) ==
  IF Len(values) > 0 THEN {CalculateStatistics(values)} ELSE {}

\* the returned summary.  totalLatencyDiff and slotDiff are the lists the
\* latencyDifferenceMs and slotDifference statistics are computed from;
\* statisticalTest is null (the empty set) or the test of the two samples;
\* the fields of comparison are held next to the two arms' sections.
AnalyzeResults(preflight, skip) ==
  LET successfulPreflight == Successful(preflight)
      successfulSkip == Successful(skip)
      totalPreflight == TotalDurations(preflight)
      totalSkip == TotalDurations(skip)
      minLength == MinLength(preflight, skip)
      totalLatencyDiff == TotalLatencyDiff(successfulPreflight, successfulSkip, minLength)
      slotDiff == SlotDiff(successfulPreflight, successfulSkip, minLength)
  IN  [preflightResults |->
         [successCount |-> Len(successfulPreflight),
          failureCount |-> Len(preflight) - Len(successfulPreflight),
          successRate |-> SuccessRate(Len(successfulPreflight), Len(preflight)),
          totalStats |-> StatisticsOrUndefined(totalPreflight)],
       skipResults |->
         [successCount |-> Len(successfulSkip),
          failureCount |-> Len(skip) - Len(successfulSkip),
          successRate |-> SuccessRate(Len(successfulSkip), Len(skip)),
          totalStats |-> StatisticsOrUndefined(totalSkip)],
       totalLatencyDiff |-> totalLatencyDiff,
       slotDiff |-> slotDiff,
       latencyDifferenceMs |-> StatisticsOrUndefined(totalLatencyDiff),
       successRateDifference |->
         Minus(SuccessRate(Len(successfulPreflight), Len(preflight)),
               SuccessRate(Len(successfulSkip), Len(skip))),
       slotDifference |-> StatisticsOrUndefined(slotDiff),
       statisticalTest |->
         IF HasEnoughSamples(Len(totalPreflight), Len(totalSkip))
           THEN {[sample1 |-> totalPreflight, sample2 |-> totalSkip]}
           ELSE {}]

\* ---------------------------------------------------- welchTTest, cohensD
\*
\* A statistic that is a quotient under a square root is held as the record
\* [sign, n, d] standing for sign * sqrt(n / d), with n, d >= 0; as for each
\* quotient, d = 0 stands for NaN when n = 0 and for an infinity otherwise.
\* The degrees of freedom are a quotient [n, d].  A p-value is held by the
\* expression that yields it: "exact" with a quotient [n, d], "beta" for
\* x^(df/2) * (1 - x)^(1/2) with x = df / (df + t^2), that is
\* 2 * (1 - (1 - 0.5 * incompleteBeta(df / 2, 0.5, x))), and "normal" for
\* 2 * (1 - normalCDF(|t|)).

SignedRoot(sign, n, d) ==
  IF d = 0 /\ sign = 0 THEN [sign |-> 0, n |-> 0, d |-> 0]
  ELSE [sign |-> sign, n |-> n, d |-> d]

NaNRoot == SignedRoot(0, 0, 0)

\* the number is zero
IsZero(x) == x.n = 0 /\ x.d > 0

\* sample.length * mean difference: sum1 * n2 - sum2 * n1 is
\* n1 * n2 * (mean1 - mean2)
ScaledMeanDifference(sample1_, sample2_) ==
  Sum(sample1_) * Len(sample2_) - Sum(sample2_) * Len(sample1_)

\* the guard with "and" for "or"
TooFewInBoth(n1, n2) == n1 < 2 /\ n2 < 2

\* n1 < 2 || n2 < 2
TooFew(n1, n2) == n1 < 2 \/ n2 < 2

\* { tStatistic: 0, pValue: 1, degreesOfFreedom: 0 }
DegenerateTest ==
  [tStatistic |-> [sign |-> 0, n |-> 0, d |-> 1],
   pValue |-> [kind |-> "exact", n |-> 1, d |-> 1],
   degreesOfFreedom |-> [n |-> 0, d |-> 1]]

\* 2 * (1 - studentTCDF(Math.abs(tStatistic), df)); df > 100 is tested as
\* (df.n - 1) \div 100 >= df.d
PValue(tStatistic, df) ==
  IF IsNaN(tStatistic) \/ IsNaN(df) THEN [kind |-> "exact", n |-> 0, d |-> 0]
  ELSE IF (df.n - 1) \div 100 >= df.d THEN [kind |-> "normal", t |-> tStatistic]
  ELSE IF df.n <= 0 \/ tStatistic.d = 0 THEN [kind |-> "exact", n |-> 0, d |-> 1]
  ELSE IF tStatistic.n = 0 THEN [kind |-> "exact", n |-> 1, d |-> 1]
  ELSE [kind |-> "beta", df |-> df, t |-> tStatistic]

\* welchTTest(sample1, sample2).  With W = n * sum of squares - sum^2 and
\* E = n^2 * (n - 1), variance / n is W / E for each sample; a mean or a
\* variance of a sample too short to have one is 0 / 0.
WelchTTest(sample1_, sample2_) ==
  LET n1 == Len(sample1_)
      n2 == Len(sample2_)
  IN  IF TooFew(n1, n2) THEN DegenerateTest
      ELSE IF n1 < 2 \/ n2 < 2
        THEN [tStatistic |-> NaNRoot, pValue |-> PValue(NaNRoot, NaN),
              degreesOfFreedom |-> NaN]
      ELSE LET a == ScaledVariance(sample1_) * n2 * n2 * (n2 - 1)
               b == ScaledVariance(sample2_) * n1 * n1 * (n1 - 1)
               diff == ScaledMeanDifference(sample1_, sample2_)
               tStatistic == SignedRoot(Sign(diff), diff * diff * (n1 - 1) * (n2 - 1),
                                        a + b)
               df == [n |-> (a + b) * (a + b) * (n1 - 1) * (n2 - 1),
                      d |-> a * a * (n2 - 1) + b * b * (n1 - 1)]
           IN  [tStatistic |-> tStatistic, pValue |-> PValue(tStatistic, df),
                degreesOfFreedom |-> df]

\* cohensD(sample1, sample2): (mean1 - mean2) / pooledSD, where pooledSD^2 is
\* (W1 * n2 + W2 * n1) / (n1 * n2 * (n1 + n2 - 2))
CohensD(sample1_, sample2_) ==
  LET n1 == Len(sample1_)
      n2 == Len(sample2_)
      diff == ScaledMeanDifference(sample1_, sample2_)
  IN  IF n1 < 2 \/ n2 < 2 THEN NaNRoot
      ELSE SignedRoot(Sign(diff), diff * diff * (n1 + n2 - 2),
                      n1 * n2 * (ScaledVariance(sample1_) * n2
                                 + ScaledVariance(sample2_) * n1))

\* ---- the value of a p-value held as an expression
\*
\* p-values are compared through their squares, which are quotients of
\* integers when the degrees of freedom are a whole number.

RECURSIVE Gcd(_, _)
Gcd(a, b) == IF b = 0 THEN a ELSE Gcd(b, a % b)

\* the quotient in lowest terms
Reduced(x) ==
  IF x.d = 0 THEN x
  ELSE LET g == Gcd(x.n, x.d) IN [n |-> x.n \div g, d |-> x.d \div g]

RECURSIVE Power(_, _)
Power(b, e) == IF e = 0 THEN 1 ELSE b * Power(b, e - 1)

\* the degrees of freedom are a whole number
WholeDf(df) == df.d > 0 /\ df.n % df.d = 0

\* incompleteBeta(df / 2, 0.5, x) squared: Math.pow(x, a) * Math.pow(1 - x, b)
\* squared is x^df * (1 - x), where x = df / (df + t * t) is
\* k * td / (k * td + tn) for df = k and t * t = tn / td in lowest terms
BetaSquared(df, t) ==
  LET k == df.n \div df.d
      tt == Reduced([n |-> t.n, d |-> t.d])
      num == k * tt.d
      den == k * tt.d + tt.n
  IN  Reduced([n |-> Power(num, k) * (den - num), d |-> Power(den, k + 1)])

\* the square of the p-value p (a p-value is never negative)
PValueSquared(p) ==
  IF p.kind = "exact" THEN [n |-> p.n * p.n, d |-> p.d * p.d]
  ELSE BetaSquared(p.df, p.t)

\* the p-value can be evaluated as a quotient: it is a number given exactly,
\* or the beta expression at whole degrees of freedom
Evaluable(p) ==
  \/ p.kind = "exact" /\ p.d > 0
  \/ p.kind = "beta" /\ WholeDf(p.df)

\* p < q, for p-values that can be evaluated
PValueLess(p, q) ==
  PValueSquared(p).n * PValueSquared(q).d < PValueSquared(q).n * PValueSquared(p).d

\* significant: tTest.pValue < 0.05, that is pValue^2 < 1 / 400
Significant(p) == 400 * PValueSquared(p).n < PValueSquared(p).d

\* ---------------------------------------------------------- printSummary

\* const SLOT_TIME_MS = 400
SLOT_TIME_MS == 400

\* mutant: the expected latency is taken per slot, unconverted
ExpectedLatencyUnconverted(slotDifference) ==
  [mean |-> slotDifference.mean, median |-> slotDifference.median,
   min |-> slotDifference.min, max |-> slotDifference.max]

\* expectedLatencyFromSlots (its mean in hundredths, as slotDifference.mean)
ExpectedLatencyFromSlots(slotDifference) ==
  [mean |-> slotDifference.mean * SLOT_TIME_MS,
   median |-> slotDifference.median * SLOT_TIME_MS,
   min |-> slotDifference.min * SLOT_TIME_MS,
   max |-> slotDifference.max * SLOT_TIME_MS]

\* the part printed under if (summary.comparison.slotDifference)
SlotSections(summary) ==
  IF summary.slotDifference = {} THEN <<>>
  ELSE LET slotDifference == CHOOSE x \in summary.slotDifference : TRUE
           expected == ExpectedLatencyFromSlots(slotDifference)
       IN  <<[section |-> "slot difference", shown |-> slotDifference],
             [section |-> "expected latency", shown |-> expected]>>
           \o (IF summary.latencyDifferenceMs = {} THEN <<>>
                ELSE LET observedMean ==
                           (CHOOSE x \in summary.latencyDifferenceMs : TRUE).mean
                     IN  <<[section |-> "discrepancy",
                            shown |-> [observedMean |-> observedMean,
                                       expectedMean |-> expected.mean,
                                       discrepancy |-> observedMean - expected.mean]]>>)

\* a section printed with a placeholder when its value is not defined
OptionalOrNoData(name, value) ==
  IF value = {} THEN <<[section |-> name, shown |-> "no data"]>>
  ELSE <<[section |-> name, shown |-> CHOOSE x \in value : TRUE]>>

\* a section printed only if its value is defined
Optional(name, value) ==
  IF value = {} THEN <<>>
  ELSE <<[section |-> name, shown |-> CHOOSE x \in value : TRUE]>>

\* printSummary(summary, config): the sections it prints, in order
PrintSummary(summary) ==
  <<[section |-> "configuration", shown |-> <<>>],
    [section |-> "preflight success rate", shown |-> summary.preflightResults.successRate]>>
  \o Optional("preflight total duration", summary.preflightResults.totalStats)
  \o <<[section |-> "skip success rate", shown |-> summary.skipResults.successRate]>>
  \o Optional("skip total duration", summary.skipResults.totalStats)
  \o Optional("latency difference", summary.latencyDifferenceMs)
  \o SlotSections(summary)
  \o <<[section |-> "success rate difference", shown |-> summary.successRateDifference]>>
  \o Optional("statistical test", summary.statisticalTest)

\* After the loop: the two filters, the analysis, the printed summary, then
\* the JSON and CSV files.
Finish ==
  /\ phase = "complete"
  /\ preflightResults' = SelectSeq(allResults, LAMBDA r : ~r.skipPreflight)
  /\ skipResults' = SelectSeq(allResults, LAMBDA r : r.skipPreflight)
  /\ analysis' = {AnalyzeResults(preflightResults', skipResults')}
  /\ report' = PrintSummary(CHOOSE x \in analysis' : TRUE)
  /\ files' = {"json", "csv"}
  /\ phase' = "saved"
  /\ UNCHANGED <<revision, i, pc, result, thrown, attempt, lookups, sleeps,
                 randomOrder, issued, allResults, tx, firstToken, escaped, statsVars>>

\* ------------------------------------------------------- specification

Init ==
  /\ revision \in Revisions
  /\ phase = "ready"
  /\ i = 0
  /\ pc = [t \in Trials |-> [a \in Arms |-> "idle"]]
  /\ result = [t \in Trials |-> [a \in Arms |-> NewResult(t, a)]]
  /\ thrown = [t \in Trials |-> [a \in Arms |-> ""]]
  /\ attempt = [a \in Arms |-> 0]
  /\ lookups = [a \in Arms |-> 0]
  /\ sleeps = [a \in Arms |-> 0]
  /\ randomOrder = TRUE
  /\ issued = <<>>
  /\ allResults = <<>>
  /\ tx = [t \in Trials |-> [a \in Arms |-> NoTx]]
  /\ firstToken = [a \in Arms |-> {}]
  /\ escaped = ""
  /\ preflightResults = <<>>
  /\ skipResults = <<>>
  /\ analysis = {}
  /\ files = {}
  /\ report = <<>>
  /\ sample1 = <<>>
  /\ sample2 = <<>>
  /\ statistics = [k \in {1, 2} |-> {}]
  /\ tTest = {}
  /\ effectSize = {}
  /\ stub = NoStub
  /\ balance = NoBalance

Next ==
  \/ RunTests
  \/ \E t \in Trials, a \in Arms, d \in Durations : SubmitConfirmed(t, a, d)
  \/ \E t \in Trials, a \in Arms : \E m \in SubmitErrors(a) : SubmitFails(t, a, m)
  \/ \E t \in Trials, a \in Arms, resp \in LookupResponses : LookupReturns(t, a, resp)
  \/ \E t \in Trials, a \in Arms : LookupThrows(t, a)
  \/ \E t \in Trials, a \in Arms : SleepEnds(t, a)
  \/ JoinPair
  \/ DelayEnds
  \/ Finish

Spec == Init /\ [][Next]_vars

\* The run under the assumption that every transport call and every timer
\* eventually returns, fails or fires, and every continuation is then run:
\* whenever a step is possible, a step is eventually taken.
SpecFair == Init /\ [][Next]_vars /\ WF_vars(Next)

\* ---- analyzeResults on its own: any two outcome lists a run can hand over

AnalysisDurations == {90, 100}
AnalysisSlots == {5, 7}

\* what the outcome of arm a of trial t can look like: failed (as each
\* revision records a failed submit call) or confirmed, with or without slot
OutcomesOf(rev, t, a) ==
  LET confirmed == {ConfirmedResult(NewResult(t, a), d, Signature(t, a)) :
                      d \in AnalysisDurations}
  IN  {IF rev = "index" THEN NewResult(t, a)
                        ELSE RejectedResult(t, a, "node is unhealthy")}
        \cup confirmed
        \cup {WithSlot(r, n) : r \in confirmed, n \in AnalysisSlots}

\* the outcome lists of arm a after n trials
RECURSIVE OutcomeLists(_, _, _)
OutcomeLists(rev, a, n) ==
  IF n = 0 THEN {<<>>}
  ELSE {Append(rs, r) : rs \in OutcomeLists(rev, a, n - 1),
                        r \in OutcomesOf(rev, n - 1, a)}

InitAnalysis ==
  /\ revision \in Revisions
  /\ phase = "called"
  /\ \E n \in 0 .. Iterations :
       /\ i = n
       /\ preflightResults \in OutcomeLists(revision, "preflight", n)
       /\ skipResults \in OutcomeLists(revision, "skip", n)
  /\ pc = [t \in Trials |-> [a \in Arms |-> "idle"]]
  /\ result = [t \in Trials |-> [a \in Arms |-> NewResult(t, a)]]
  /\ thrown = [t \in Trials |-> [a \in Arms |-> ""]]
  /\ attempt = [a \in Arms |-> 0]
  /\ lookups = [a \in Arms |-> 0]
  /\ sleeps = [a \in Arms |-> 0]
  /\ randomOrder = TRUE
  /\ issued = <<>>
  /\ allResults = <<>>
  /\ tx = [t \in Trials |-> [a \in Arms |-> NoTx]]
  /\ firstToken = [a \in Arms |-> {}]
  /\ escaped = ""
  /\ analysis = {}
  /\ files = {}
  /\ report = <<>>
  /\ sample1 = <<>>
  /\ sample2 = <<>>
  /\ statistics = [k \in {1, 2} |-> {}]
  /\ tTest = {}
  /\ effectSize = {}
  /\ stub = NoStub
  /\ balance = NoBalance

\* const analysis = analyzeResults(preflightResults, skipResults)
AnalyzeCall ==
  /\ phase = "called"
  /\ analysis' = {AnalyzeResults(preflightResults, skipResults)}
  /\ phase' = "returned"
  /\ UNCHANGED <<revision, i, pc, result, thrown, attempt, lookups, sleeps,
                 randomOrder, issued, allResults, tx, firstToken, escaped,
                 preflightResults, skipResults, files, report, statsVars>>

\* printSummary(summary, config)
PrintSummaryCall ==
  /\ phase = "returned"
  /\ report' = PrintSummary(CHOOSE x \in analysis : TRUE)
  /\ phase' = "printed"
  /\ UNCHANGED <<revision, i, pc, result, thrown, attempt, lookups, sleeps,
                 randomOrder, issued, allResults, tx, firstToken, escaped,
                 preflightResults, skipResults, analysis, files, statsVars>>

NextAnalysis == AnalyzeCall \/ PrintSummaryCall

SpecAnalysis == InitAnalysis /\ [][NextAnalysis]_vars

\* ---- a run against a transport that always succeeds with constant answers

\* the most trials of such a run
MaxStubTrials == 10

StubDurations == {90, 100}
StubSlots == {0, 5, 6}

\* what sendAndTrackTransaction returns for arm a of trial t when the submit
\* call takes d ms and every getTransaction reports slot n
StubOutcome(t, a, d, n) ==
  LET confirmed == ConfirmedResult(NewResult(t, a), d, Signature(t, a))
  IN  IF SlotTruthy([found |-> TRUE, slot |-> n]) THEN WithSlot(confirmed, n)
      ELSE confirmed

\* the run is over and its outcomes are filtered by arm
InitStub ==
  /\ stub \in [n : 1 .. MaxStubTrials, a : StubDurations, b : StubDurations,
                s : StubSlots, t : StubSlots]
  /\ balance = NoBalance
  /\ preflightResults =
       [k \in 1 .. stub.n |-> StubOutcome(k - 1, "preflight", stub.a, stub.s)]
  /\ skipResults = [k \in 1 .. stub.n |-> StubOutcome(k - 1, "skip", stub.b, stub.t)]
  /\ revision \in Revisions
  /\ phase = "called"
  /\ i = 0
  /\ pc = [t \in Trials |-> [a \in Arms |-> "idle"]]
  /\ result = [t \in Trials |-> [a \in Arms |-> NewResult(t, a)]]
  /\ thrown = [t \in Trials |-> [a \in Arms |-> ""]]
  /\ attempt = [a \in Arms |-> 0]
  /\ lookups = [a \in Arms |-> 0]
  /\ sleeps = [a \in Arms |-> 0]
  /\ randomOrder = TRUE
  /\ issued = <<>>
  /\ allResults = <<>>
  /\ tx = [t \in Trials |-> [a \in Arms |-> NoTx]]
  /\ firstToken = [a \in Arms |-> {}]
  /\ escaped = ""
  /\ analysis = {}
  /\ files = {}
  /\ report = <<>>
  /\ sample1 = <<>>
  /\ sample2 = <<>>
  /\ statistics = [k \in {1, 2} |-> {}]
  /\ tTest = {}
  /\ effectSize = {}

SpecStub == InitStub /\ [][NextAnalysis]_vars

\* ---- calculateStatistics on its own: samples and their reorderings

\* the longest sample drawn from SampleValues
MaxLen == 3

SampleValues == {90, 100, 120}

\* the samples of up to n values
ShortSamples(n) == UNION {[1 .. m -> SampleValues] : m \in 0 .. n}

\* samples long enough for the 95th and 99th ranks to differ from the last
Zeros(n) == [k \in 1 .. n |-> 0]
LongSamples == {<<2, 1>> \o Zeros(18), <<2>> \o Zeros(98) \o <<1>>}

\* five distinct values, out of order
ExampleSamples == {<<30, 10, 50, 20, 40>>}

\* the reorderings of a sample: all of a short one, two of a long one
Reverse(xs) == [k \in DOMAIN xs |-> xs[Len(xs) + 1 - k]]
Occurrences(xs, v) == Cardinality({k \in DOMAIN xs : xs[k] = v})
Reorderings(xs) ==
  IF xs \in LongSamples \cup ExampleSamples THEN {Reverse(xs), Tail(xs) \o <<Head(xs)>>}
  ELSE {ys \in [DOMAIN xs -> SampleValues] :
          \A v \in SampleValues : Occurrences(ys, v) = Occurrences(xs, v)}

\* no run is in progress
RunIdle ==
  /\ revision = "index"
  /\ i = 0
  /\ pc = [t \in Trials |-> [a \in Arms |-> "idle"]]
  /\ result = [t \in Trials |-> [a \in Arms |-> NewResult(t, a)]]
  /\ thrown = [t \in Trials |-> [a \in Arms |-> ""]]
  /\ attempt = [a \in Arms |-> 0]
  /\ lookups = [a \in Arms |-> 0]
  /\ sleeps = [a \in Arms |-> 0]
  /\ randomOrder = TRUE
  /\ issued = <<>>
  /\ allResults = <<>>
  /\ tx = [t \in Trials |-> [a \in Arms |-> NoTx]]
  /\ firstToken = [a \in Arms |-> {}]
  /\ escaped = ""
  /\ preflightResults = <<>>
  /\ skipResults = <<>>
  /\ analysis = {}
  /\ files = {}
  /\ report = <<>>
  /\ stub = NoStub
  /\ balance = NoBalance

InitDescriptive ==
  /\ RunIdle
  /\ phase = "sampled"
  /\ sample1 \in ShortSamples(MaxLen) \cup LongSamples \cup ExampleSamples
  /\ sample2 \in Reorderings(sample1)
  /\ statistics = [k \in {1, 2} |-> {}]
  /\ tTest = {}
  /\ effectSize = {}

\* calculateStatistics(sample k)
CalculateCall(k) ==
  /\ phase = "sampled"
  /\ statistics[k] = {}
  /\ statistics' = [statistics EXCEPT
                      ![k] = {CalculateStatistics(IF k = 1 THEN sample1 ELSE sample2)}]
  /\ UNCHANGED <<revision, phase, i, pc, result, thrown, attempt, lookups, sleeps,
                 randomOrder, issued, allResults, tx, firstToken, escaped,
                 preflightResults, skipResults, analysis, files, report,
                 sample1, sample2, tTest, effectSize, stub, balance>>

NextDescriptive == \E k \in {1, 2} : CalculateCall(k)

SpecDescriptive == InitDescriptive /\ [][NextDescriptive]_vars

\* ---- welchTTest and cohensD on their own: any two samples

TestValues == {98, 100, 102}

TestSamples == UNION {[1 .. m -> TestValues] : m \in 0 .. MaxLen}

\* a sample of five latencies around 100 ms
LatencySample == <<100, 102, 98, 101, 99>>

\* pairs of two latencies 20 ms apart: the same pair twice, and pairs whose
\* means differ by 1 ms and by 10 ms
SpreadPairs ==
  {<<(<<90, 110>>), (<<90, 110>>)>>, <<(<<90, 110>>), (<<91, 111>>)>>,
   <<(<<90, 110>>), (<<100, 120>>)>>}

InitTest ==
  /\ RunIdle
  /\ phase = "sampled"
  /\ \E pair \in (TestSamples \X TestSamples) \cup {<<LatencySample, LatencySample>>}
                  \cup SpreadPairs :
       sample1 = pair[1] /\ sample2 = pair[2]
  /\ statistics = [k \in {1, 2} |-> {}]
  /\ tTest = {}
  /\ effectSize = {}

\* welchTTest(sample1, sample2)
WelchCall ==
  /\ phase = "sampled"
  /\ tTest = {}
  /\ tTest' = {WelchTTest(sample1, sample2)}
  /\ UNCHANGED <<revision, phase, i, pc, result, thrown, attempt, lookups, sleeps,
                 randomOrder, issued, allResults, tx, firstToken, escaped,
                 preflightResults, skipResults, analysis, files, report,
                 sample1, sample2, statistics, effectSize, stub, balance>>

\* cohensD(sample1, sample2)
CohensDCall ==
  /\ phase = "sampled"
  /\ effectSize = {}
  /\ effectSize' = {CohensD(sample1, sample2)}
  /\ UNCHANGED <<revision, phase, i, pc, result, thrown, attempt, lookups, sleeps,
                 randomOrder, issued, allResults, tx, firstToken, escaped,
                 preflightResults, skipResults, analysis, files, report,
                 sample1, sample2, statistics, tTest, stub, balance>>

NextTest == WelchCall \/ CohensDCall

SpecTest == InitTest /\ [][NextTest]_vars

\* ---- the alternating runner: runSingleTest in a loop of 2 * iterations steps

\* mutant: odd steps run with preflight
SkipPreflightOfEvenStep(k) == k % 2 = 0

\* const skipPreflight = i % 2 === 1
SkipPreflightOfStep(k) == k % 2 = 1

\* the arm of loop step k, and const iterationNumber = Math.floor(i / 2)
ArmOfStep(k) == IF SkipPreflightOfStep(k) THEN "skip" ELSE "preflight"
IterationOfStep(k) == k \div 2

InitAlternating ==
  /\ revision = "alternating"
  /\ phase = "ready"
  /\ i = 0
  /\ pc = [t \in Trials |-> [a \in Arms |-> "idle"]]
  /\ result = [t \in Trials |-> [a \in Arms |-> NewResult(t, a)]]
  /\ thrown = [t \in Trials |-> [a \in Arms |-> ""]]
  /\ attempt = [a \in Arms |-> 0]
  /\ lookups = [a \in Arms |-> 0]
  /\ sleeps = [a \in Arms |-> 0]
  /\ randomOrder = TRUE
  /\ issued = <<>>
  /\ allResults = <<>>
  /\ tx = [t \in Trials |-> [a \in Arms |-> NoTx]]
  /\ firstToken = [a \in Arms |-> {}]
  /\ escaped = ""
  /\ preflightResults = <<>>
  /\ skipResults = <<>>
  /\ analysis = {}
  /\ files = {}
  /\ report = <<>>
  /\ sample1 = <<>>
  /\ sample2 = <<>>
  /\ statistics = [k \in {1, 2} |-> {}]
  /\ tTest = {}
  /\ effectSize = {}
  /\ stub = NoStub
  /\ balance = NoBalance

\* a turn of the loop begins: runSingleTest(..., skipPreflight, iterationNumber)
\* is called and runs up to its await of sendAndConfirmTransaction
SingleTestStarts ==
  /\ phase = "ready"
  /\ i < 2 * Iterations
  /\ LET t == IterationOfStep(i)
         a == ArmOfStep(i)
     IN  /\ pc' = [pc EXCEPT ![t][a] = "inflight"]
         /\ result' = [result EXCEPT ![t][a] = NewResult(t, a)]
         /\ issued' = Append(issued, [iteration |-> t, skipPreflight |-> SkipPreflight(a)])
         /\ tx' = [tx EXCEPT ![t][a] = [payer |-> "payer", recipient |-> "recipient",
                                        lamports |-> amountLamports]]
  /\ phase' = "awaiting"
  /\ UNCHANGED <<revision, i, thrown, attempt, lookups, sleeps, randomOrder,
                 allResults, firstToken, escaped, analysisVars>>

\* sendAndConfirmTransaction returns a signature after d ms
SingleTestConfirmed ==
  /\ phase = "awaiting"
  /\ \E t \in Trials, a \in Arms, d \in AnalysisDurations :
       /\ pc[t][a] = "inflight"
       /\ result' = [result EXCEPT
                       ![t][a] = ConfirmedResult(result[t][a], d, Signature(t, a))]
       /\ pc' = [pc EXCEPT ![t][a] = "fulfilled"]
  /\ UNCHANGED <<revision, phase, i, thrown, attempt, lookups, sleeps, randomOrder,
                 issued, allResults, tx, firstToken, escaped, analysisVars>>

\* sendAndConfirmTransaction throws: catch (error) { result.success = false;
\* result.error = error.message }
SingleTestFails ==
  /\ phase = "awaiting"
  /\ \E t \in Trials, a \in Arms : \E e \in SubmitErrors(a) :
       /\ pc[t][a] = "inflight"
       /\ thrown' = [thrown EXCEPT ![t][a] = e]
       /\ result' = [result EXCEPT ![t][a] = NewResult(t, a) @@ ("error" :> e)]
       /\ pc' = [pc EXCEPT ![t][a] = "fulfilled"]
  /\ UNCHANGED <<revision, phase, i, attempt, lookups, sleeps, randomOrder,
                 issued, allResults, tx, firstToken, escaped, analysisVars>>

\* await runSingleTest(...) resumes: allResults.push(result), then the delay
\* between transactions starts
SingleTestReturns ==
  /\ phase = "awaiting"
  /\ pc[IterationOfStep(i)][ArmOfStep(i)] = "fulfilled"
  /\ allResults' = Append(allResults, result[IterationOfStep(i)][ArmOfStep(i)])
  /\ phase' = "delay"
  /\ UNCHANGED <<revision, i, pc, result, thrown, attempt, lookups, sleeps,
                 randomOrder, issued, tx, firstToken, escaped, analysisVars>>

\* the delay is over: i++, and the loop ends at i = 2 * iterations
StepDelayEnds ==
  /\ phase = "delay"
  /\ i' = i + 1
  /\ phase' = IF i + 1 < 2 * Iterations THEN "ready" ELSE "complete"
  /\ UNCHANGED <<revision, pc, result, thrown, attempt, lookups, sleeps,
                 randomOrder, issued, allResults, tx, firstToken, escaped,
                 analysisVars>>

\* after the loop: the two filters, analyzeResults, printSummary, the files
AlternatingFinish ==
  /\ phase = "complete"
  /\ preflightResults' = SelectSeq(allResults, LAMBDA r : ~r.skipPreflight)
  /\ skipResults' = SelectSeq(allResults, LAMBDA r : r.skipPreflight)
  /\ analysis' = {AnalyzeResults(preflightResults', skipResults')}
  /\ report' = PrintSummary(CHOOSE x \in analysis' : TRUE)
  /\ files' = {"json", "csv"}
  /\ phase' = "saved"
  /\ UNCHANGED <<revision, i, pc, result, thrown, attempt, lookups, sleeps,
                 randomOrder, issued, allResults, tx, firstToken, escaped, statsVars>>

NextAlternating ==
  \/ SingleTestStarts
  \/ SingleTestConfirmed
  \/ SingleTestFails
  \/ SingleTestReturns
  \/ StepDelayEnds
  \/ AlternatingFinish

SpecAlternating == InitAlternating /\ [][NextAlternating]_vars

\* ---- runTests before the loop: the balance pre-check

\* the largest balance getBalance reports in the modelled runs
MaxBalance == 7

\* what getBalance may return for a payer
BalanceValues == 0 .. MaxBalance

\* LAMPORTS_PER_SOL of @solana/web3.js: requestAirdrop(payer, LAMPORTS_PER_SOL * 1)
LAMPORTS_PER_SOL == 1000000000

\* the paying accounts, in the order their balances are checked
PayerOrder(rev) == IF rev = "index" THEN <<"payer1", "payer2">> ELSE <<"payer">>

\* "index": requiredBalancePerPayer = config.amountLamports * config.iterations;
\* "part_000": requiredBalance = config.amountLamports * config.iterations * 2
RequiredBalance(rev) ==
  IF rev = "index" THEN amountLamports * Iterations ELSE amountLamports * Iterations * 2

\* the lamports the transfers of trial t move out of account p
PairTransfers(rev, p, t) ==
  LET moved(a) == IF BuildTx(rev, t, a).payer = p THEN BuildTx(rev, t, a).lamports ELSE 0
  IN  moved("preflight") + moved("skip")

\* the lamports the transfers of trials 0 .. n - 1 move out of account p
RECURSIVE TransfersUpTo(_, _, _)
TransfersUpTo(rev, p, n) ==
  IF n = 0 THEN 0 ELSE TransfersUpTo(rev, p, n - 1) + PairTransfers(rev, p, n - 1)

\* the lamports all transfers of the run move out of account p
TotalTransfers(rev, p) == TransfersUpTo(rev, p, Iterations)

\* phase while the k-th payer's airdrop block is next; after the last block
\* the final check is next
BalancePhase(rev, k) ==
  IF k > Len(PayerOrder(rev)) THEN "balanceFinal"
  ELSE IF k = 1 THEN "balance1" ELSE "balance2"

\* what the second getBalance returns after a confirmed airdrop to an account
\* holding b: the node read has seen the airdrop, or has not seen it yet
Reread(b, seen) == IF seen THEN b + LAMPORTS_PER_SOL ELSE b

balanceUnchanged ==
  <<revision, i, pc, result, thrown, attempt, lookups, sleeps, randomOrder,
    issued, allResults, tx, firstToken, preflightResults, skipResults, analysis,
    files, report, sample1, sample2, statistics, tTest, effectSize, stub>>

InitBalance ==
  /\ revision \in Revisions
  /\ phase = "start"
  /\ i = 0
  /\ pc = [t \in Trials |-> [a \in Arms |-> "idle"]]
  /\ result = [t \in Trials |-> [a \in Arms |-> NewResult(t, a)]]
  /\ thrown = [t \in Trials |-> [a \in Arms |-> ""]]
  /\ attempt = [a \in Arms |-> 0]
  /\ lookups = [a \in Arms |-> 0]
  /\ sleeps = [a \in Arms |-> 0]
  /\ randomOrder = TRUE
  /\ issued = <<>>
  /\ allResults = <<>>
  /\ tx = [t \in Trials |-> [a \in Arms |-> NoTx]]
  /\ firstToken = [a \in Arms |-> {}]
  /\ escaped = ""
  /\ preflightResults = <<>>
  /\ skipResults = <<>>
  /\ analysis = {}
  /\ files = {}
  /\ report = <<>>
  /\ sample1 = <<>>
  /\ sample2 = <<>>
  /\ statistics = [k \in {1, 2} |-> {}]
  /\ tTest = {}
  /\ effectSize = {}
  /\ stub = NoStub
  /\ balance = NoBalance

\* let balance = await connection.getBalance(payer.publicKey), for every payer
GetBalances(b) ==
  /\ phase = "start"
  /\ balance' = b
  /\ phase' = BalancePhase(revision, 1)
  /\ UNCHANGED <<escaped, balanceUnchanged>>

\* "index" reads payer2's balance through `connection`, a name this runTests
\* does not declare: where the build lets the program run, the read throws a
\* ReferenceError and the run ends in main's catch
GetBalanceThrows ==
  /\ phase = "start"
  /\ revision = "index"
  /\ escaped' = "connection is not defined"
  /\ phase' = "failed"
  /\ UNCHANGED <<balance, balanceUnchanged>>

\* if (balance < requiredBalance) is false for the k-th payer: no airdrop
NoAirdrop(k) ==
  /\ k \in 1 .. Len(PayerOrder(revision))
  /\ phase = BalancePhase(revision, k)
  /\ balance[PayerOrder(revision)[k]] >= RequiredBalance(revision)
  /\ phase' = BalancePhase(revision, k + 1)
  /\ UNCHANGED <<balance, escaped, balanceUnchanged>>

\* the k-th payer is short: requestAirdrop and confirmTransaction return and
\* the balance is read again
AirdropConfirmed(k, seen) ==
  /\ k \in 1 .. Len(PayerOrder(revision))
  /\ phase = BalancePhase(revision, k)
  /\ balance[PayerOrder(revision)[k]] < RequiredBalance(revision)
  /\ balance' = [balance EXCEPT ![PayerOrder(revision)[k]] = Reread(@, seen)]
  /\ phase' = BalancePhase(revision, k + 1)
  /\ UNCHANGED <<escaped, balanceUnchanged>>

\* the k-th payer is short and the airdrop fails: catch (error) { throw error }
AirdropFails(k) ==
  /\ k \in 1 .. Len(PayerOrder(revision))
  /\ phase = BalancePhase(revision, k)
  /\ balance[PayerOrder(revision)[k]] < RequiredBalance(revision)
  /\ escaped' = "airdrop failed"
  /\ phase' = "failed"
  /\ UNCHANGED <<balance, balanceUnchanged>>

\* if (balance < requiredBalance) throw new Error('Insufficient balance for
\* test. ...'); otherwise runTests goes on to the trial loop
FinalBalanceCheck ==
  /\ phase = "balanceFinal"
  /\ IF \E p \in DOMAIN balance : balance[p] < RequiredBalance(revision)
       THEN /\ escaped' = "Insufficient balance for test"
            /\ phase' = "failed"
       ELSE /\ phase' = "ready"
            /\ UNCHANGED escaped
  /\ UNCHANGED <<balance, balanceUnchanged>>

PayerNames(rev) == {PayerOrder(rev)[k] : k \in 1 .. Len(PayerOrder(rev))}

NextBalance ==
  \/ \E b \in [PayerNames(revision) -> BalanceValues] : GetBalances(b)
  \/ GetBalanceThrows
  \/ \E k \in {1, 2} : NoAirdrop(k)
  \/ \E k \in {1, 2}, seen \in BOOLEAN : AirdropConfirmed(k, seen)
  \/ \E k \in {1, 2} : AirdropFails(k)
  \/ FinalBalanceCheck
  \/ RunTests

\* runTests from its balance reads to the dispatch of the first trial
SpecBalance == InitBalance /\ [][NextBalance]_vars

TypeOK ==
  /\ revision \in Revisions
  /\ phase \in {"ready", "awaiting", "delay", "complete", "saved", "failed",
                "called", "returned", "printed", "sampled",
                "start", "balance1", "balance2", "balanceFinal"}
  /\ i \in 0 .. Iterations
  /\ \A t \in Trials, a \in Arms :
       pc[t][a] \in {"idle", "inflight", "lookup", "sleeping", "fulfilled", "rejected"}
  /\ Len(allResults) <= 2 * Iterations

\* ------------------------------------------------------------- claims

\* the pair of trial t has been returned to runTests and pushed
Recorded(t) == Len(allResults) >= 2 * (t + 1)

\* position of arm a's outcome in the pair
ArmIndex(a) == IF a = "preflight" THEN 1 ELSE 2

\* the outcome runTests holds for arm a of trial t
Outcome(t, a) == allResults[2 * t + ArmIndex(a)]

\* what arm a's own task came to: its result object, or its rejection
OwnOutcome(t, a) ==
  IF pc[t][a] = "fulfilled" THEN result[t][a] ELSE RejectedResult(t, a, thrown[t][a])

\* C1: runSimultaneousPair returns the pair of a trial only after both arms'
\* tasks have settled (fulfilled or rejected); the outcome recorded for an arm
\* is the one its own task came to, whatever happened to the other arm; and
\* the step in which one arm's submit call fails leaves the other arm's task
\* and result object untouched.
C1_JoinWaitsForBoth ==
  /\ [](\A t \in Trials : Recorded(t) =>
          \A a \in Arms : Settled(t, a) /\ Outcome(t, a) = OwnOutcome(t, a))
  /\ [][\A t \in Trials, a \in Arms :
          thrown'[t][a] # thrown[t][a] =>
            /\ pc'[t][Other(a)] = pc[t][Other(a)]
            /\ result'[t][Other(a)] = result[t][Other(a)]]_vars

\* C1 witness: a recorded pair whose preflight arm was rejected while the skip
\* arm succeeded and resolved its slot
C1_Witness ==
  \E t \in Trials :
    /\ Recorded(t)
    /\ pc[t]["preflight"] = "rejected"
    /\ Outcome(t, "skip").success
    /\ HasField(Outcome(t, "skip"), "slot")

\* an operation of arm a of trial t is outstanding: its submit call, a slot
\* lookup, or the pause between two lookups
InFlight(t, a) == pc[t][a] \in {"inflight", "lookup", "sleeping"}

\* C2: trials are strictly sequential: no operation of a later trial is
\* issued before both arms of every earlier trial are fully resolved, and all
\* operations in flight belong to the one trial runTests is awaiting.
C2_TrialsSequential ==
  /\ \A t1, t2 \in Trials :
       (t1 < t2 /\ \E a \in Arms : pc[t2][a] # "idle") =>
         \A a \in Arms : Settled(t1, a)
  /\ \A t \in Trials, a \in Arms :
       InFlight(t, a) => (t = i /\ phase = "awaiting")

\* C2 witness: the second trial has operations in flight, the first trial is
\* resolved (one arm failed, the other went through slot lookups) and recorded
C2_Witness ==
  /\ Recorded(0)
  /\ \E a \in Arms : thrown[0][a] # "" /\ result[0][Other(a)].success
  /\ InFlight(1, "preflight")
  /\ pc[1]["skip"] = "lookup"

\* C3: both arms of a trial are dispatched concurrently: the step that issues
\* a submit call of trial t issues both, so both arms are in flight together
\* before either has resolved; no state has one arm of a trial started and
\* the other not.
C3_ConcurrentDispatch ==
  /\ [](\A t \in Trials :
          (\E a \in Arms : pc[t][a] # "idle") => (\A a \in Arms : pc[t][a] # "idle"))
  /\ [][\A t \in Trials :
          (\E a \in Arms : pc[t][a] = "idle" /\ pc'[t][a] # "idle") =>
            /\ \A a \in Arms : pc'[t][a] = "inflight"
            /\ Len(issued') = 2]_vars

\* C3 witness: both arms of the last trial are in flight at once
C3_Witness ==
  /\ i = Iterations - 1
  /\ \A a \in Arms : pc[Iterations - 1][a] = "inflight"

\* C4 (as claimed): the order of the two dispatch calls follows the random
\* draw, so that in the executions where the draw puts the skip arm first the
\* skip arm's submit call is issued before the preflight arm's.
C4_DispatchFollowsRandomOrder ==
  phase = "awaiting" => issued = PromiseOrder(randomOrder)

\* What the code does instead: the preflight arm's submit call is issued
\* first in every trial; randomOrder only orders the array handed to
\* Promise.allSettled.
C4_PreflightAlwaysFirst ==
  Len(issued) > 0 => issued = <<"preflight", "skip">>

\* C5: an arm failure never aborts the run: the run is in the error exit
\* state only for an error raised while a trial was built, never for the
\* error of an arm; while a trial is awaited each of
\* its arms is in flight or settled, whatever failed (so the join still comes
\* and the loop goes on); when the loop is complete every trial has an
\* outcome for both arms.
C5_ArmFailureNeverAborts ==
  /\ phase = "failed" => escaped = BuildError
  /\ phase = "awaiting" => \A a \in Arms : InFlight(i, a) \/ Settled(i, a)
  /\ phase = "delay" => (Recorded(i) /\ i < Iterations)
  /\ phase = "complete" =>
       /\ Len(allResults) = 2 * Iterations
       /\ \A t \in Trials, a \in Arms :
            /\ Outcome(t, a).iteration = t
            /\ Outcome(t, a).skipPreflight = SkipPreflight(a)

\* C5 witness: the run is complete although a submit call failed in every
\* trial, both of them in the first
C5_Witness ==
  /\ phase = "complete"
  /\ \A t \in Trials : \E a \in Arms : thrown[t][a] # ""
  /\ \A a \in Arms : thrown[0][a] # ""

\* the trial the per-arm counters attempt, lookups and sleeps belong to
CurTrial ==
  IF i < Iterations /\ pc[i]["preflight"] # "idle" THEN i
  ELSE IF i > 0 THEN i - 1 ELSE 0

\* the arm an outcome belongs to
ArmOf(r) == IF r.skipPreflight THEN "skip" ELSE "preflight"

\* C6 (as claimed): every recorded outcome has exactly one of totalDurationMs
\* and error: a succeeded arm has a duration and no error, a failed arm has
\* success = false, no duration, and as error the message of the failure its
\* submit-and-confirm call raised.
C6_DurationXorError ==
  \A k \in 1 .. Len(allResults) :
    LET r == allResults[k]
    IN  /\ HasField(r, "totalDurationMs") # HasField(r, "error")
        /\ r.success => HasField(r, "totalDurationMs")
        /\ ~r.success =>
             /\ HasField(r, "error")
             /\ r.error = thrown[r.iteration][ArmOf(r)]

\* What holds of both revisions: a succeeded outcome has a duration and no
\* error, a failed one has no duration, and an error that is recorded is the
\* message the submit call raised.
C6_NeverBothDurationAndError ==
  \A k \in 1 .. Len(allResults) :
    LET r == allResults[k]
    IN  /\ r.success <=> HasField(r, "totalDurationMs")
        /\ r.success => ~HasField(r, "error")
        /\ HasField(r, "error") => r.error = thrown[r.iteration][ArmOf(r)]

\* C7: slot lookups are bounded and gated on success: an arm makes at most 3
\* getTransaction calls in a trial, only after its submit-and-confirm call
\* succeeded; an arm whose submit call failed makes none.
C7_LookupsBoundedAndGated ==
  \A a \in Arms :
    /\ lookups[a] <= 3
    /\ lookups[a] > 0 => (result[CurTrial][a].success /\ thrown[CurTrial][a] = "")
    /\ thrown[CurTrial][a] # "" => (lookups[a] = 0 /\ sleeps[a] = 0)
    /\ pc[CurTrial][a] \in {"lookup", "sleeping"} => result[CurTrial][a].success

\* C7 witness: one arm used all 3 lookups and is resolved, the other arm's
\* submit call failed and it made no lookup
C7_Witness ==
  \E a \in Arms :
    /\ lookups[a] = 3
    /\ pc[CurTrial][a] = "fulfilled"
    /\ thrown[CurTrial][Other(a)] # ""
    /\ lookups[Other(a)] = 0

\* C8: a failed slot resolution is not fatal: an arm whose submit call
\* succeeded and whose lookups all threw or returned no slot is fulfilled with
\* success = true, its measured duration and its signature, no slot and no
\* error; that is the outcome recorded for it, and the run is not aborted.
C8_TokenFailureNonFatal ==
  /\ escaped \in {"", BuildError}
  /\ \A t \in Trials, a \in Arms :
       (Settled(t, a) /\ thrown[t][a] = "" /\ ~HasField(result[t][a], "slot")) =>
         /\ pc[t][a] = "fulfilled"
         /\ result[t][a].success
         /\ HasField(result[t][a], "totalDurationMs")
         /\ result[t][a].totalDurationMs \in Durations
         /\ HasField(result[t][a], "signature")
         /\ result[t][a].signature = Signature(t, a)
         /\ ~HasField(result[t][a], "error")
         /\ Recorded(t) => Outcome(t, a) = result[t][a]

\* C8 witness: all 3 lookups of an arm threw (2 pauses), the other arm got
\* no slot from 3 answers, and the pair is recorded with both successful
C8_Witness ==
  \E a \in Arms :
    /\ Recorded(CurTrial)
    /\ lookups[a] = 3 /\ sleeps[a] = 2
    /\ lookups[Other(a)] = 3 /\ sleeps[Other(a)] = 0
    /\ \A b \in Arms :
         Outcome(CurTrial, b).success /\ ~HasField(Outcome(CurTrial, b), "slot")

\* C9 (as claimed): a 1 s pause takes place between any two consecutive
\* lookup attempts of an arm, whether the earlier attempt threw or returned
\* without a slot: n lookups issued means at least n - 1 pauses.
C9_PauseBetweenLookups ==
  \A a \in Arms : lookups[a] >= 1 => sleeps[a] >= lookups[a] - 1

\* What the code does: it pauses only after a lookup that threw, so there
\* are never more pauses than that.
C9_PauseOnlyBetweenLookups ==
  \A a \in Arms : sleeps[a] <= 2 /\ (lookups[a] >= 1 => sleeps[a] <= lookups[a])

\* C10: the retry loop never retries on success: once a slot is recorded the
\* arm's task is over (no lookup outstanding, no pause in progress), and
\* within that trial its lookup count, pause count and result stay as they are.
C10_NoRetryAfterToken ==
  /\ [](\A t \in Trials, a \in Arms :
          HasField(result[t][a], "slot") => pc[t][a] = "fulfilled")
  /\ [][\A a \in Arms :
          (i' = i /\ i \in Trials /\ HasField(result[i][a], "slot")) =>
            /\ lookups'[a] = lookups[a]
            /\ sleeps'[a] = sleeps[a]
            /\ attempt'[a] = attempt[a]
            /\ result'[i][a] = result[i][a]
            /\ pc'[i][a] = pc[i][a]]_vars

\* C10 witness: an arm got its slot at the second attempt, after one pause,
\* and the pair was recorded later with the other arm still retrying meanwhile
C10_Witness ==
  \E a \in Arms :
    /\ HasField(result[CurTrial][a], "slot")
    /\ lookups[a] = 2 /\ sleeps[a] = 1
    /\ lookups[Other(a)] = 3
    /\ Recorded(CurTrial)

\* C11 (as claimed): after an arm resolves, its outcome has a slot if and
\* only if the arm succeeded and one of its lookups returned an integer slot,
\* and the slot is the integer the first such lookup returned, whatever
\* integer that is.
C11_SlotIffTokenReturned ==
  \A a \in Arms :
    Settled(CurTrial, a) =>
      LET r == OwnOutcome(CurTrial, a)
      IN  /\ HasField(r, "slot") <=> (r.success /\ firstToken[a] # {})
          /\ HasField(r, "slot") => firstToken[a] = {r.slot}

\* C11, what the code does: the slot is recorded for the first lookup that
\* returned a nonzero integer; a returned slot 0 is taken for no answer
C11_SlotIffTruthyTokenReturned ==
  \A a \in Arms :
    Settled(CurTrial, a) =>
      LET r == OwnOutcome(CurTrial, a)
      IN  /\ HasField(r, "slot") => (r.success /\ r.slot # 0 /\ firstToken[a] \in {{0}, {r.slot}})
          /\ (r.success /\ firstToken[a] \notin {{}, {0}}) => HasField(r, "slot")

\* the stage an arm's slot resolution is in: pending while lookups may still
\* come, resolved once a slot is recorded, absent when the arm settled without
TokenState(t, a) ==
  IF HasField(result[t][a], "slot") THEN "resolved"
  ELSE IF Settled(t, a) THEN "absent" ELSE "pending"

\* what a step may do to an arm that it touches at all
ArmStepForward(t, a) ==
  /\ pc[t][a] # "idle" => pc'[t][a] # "idle"
  /\ pc[t][a] \in {"lookup", "sleeping", "fulfilled", "rejected"} =>
       pc'[t][a] # "inflight"
  /\ result[t][a].success =>
       /\ result'[t][a].success
       /\ pc'[t][a] # "rejected"
       /\ result'[t][a].totalDurationMs = result[t][a].totalDurationMs
       /\ result'[t][a].signature = result[t][a].signature
  /\ ~Settled(t, a)
  /\ TokenState(t, a) # "pending" => TokenState(t, a)' = TokenState(t, a)
  /\ TokenState(t, a)' = "resolved" => result[t][a].success
  /\ HasField(result[t][a], "slot") =>
       /\ HasField(result'[t][a], "slot")
       /\ result'[t][a].slot = result[t][a].slot

\* C12: no arm moves backward.  A dispatched arm never returns to idle; its
\* submit call's outcome is decided once: a recorded success stays a success
\* with the same duration and signature, also when lookups throw, and a
\* settled arm's task state and result never change again; the slot
\* resolution leaves pending once, and a recorded slot is never cleared or
\* overwritten.
C12_NoBackwardTransition ==
  [][\A t \in Trials, a \in Arms :
       \/ UNCHANGED <<pc[t][a], result[t][a], thrown[t][a]>>
       \/ ArmStepForward(t, a)]_vars

\* C12 witness: an arm whose lookups threw twice, then resolved its slot at
\* the third attempt, is recorded as a success while the other arm failed
C12_Witness ==
  \E a \in Arms :
    /\ Recorded(CurTrial)
    /\ lookups[a] = 3 /\ sleeps[a] = 2
    /\ Outcome(CurTrial, a).success
    /\ TokenState(CurTrial, a) = "resolved"
    /\ ~Outcome(CurTrial, Other(a)).success

\* the number of trials whose pair runTests has pushed
CompletedTrials ==
  CASE phase = "ready" -> 0
    [] phase \in {"awaiting", "failed"} -> i
    [] phase = "delay" -> i + 1
    [] OTHER -> Iterations

\* C13: allResults only grows by appends and holds the outcomes in trial
\* order: at every moment it holds, for each completed trial in increasing
\* order, the preflight arm's outcome followed by the skip arm's outcome and
\* nothing else; after the run it has 2 x iterations entries, iterations per
\* arm; a step either leaves the list alone or appends exactly one pair to it,
\* so an appended entry is never modified or removed.
C13_AppendOnlyInTrialOrder ==
  /\ [](/\ Len(allResults) = 2 * CompletedTrials
        /\ \A k \in 1 .. Len(allResults) :
             /\ allResults[k].iteration = (k - 1) \div 2
             /\ allResults[k].skipPreflight = (k % 2 = 0)
        /\ \A t \in Trials, a \in Arms :
             Recorded(t) => Outcome(t, a) = OwnOutcome(t, a)
        /\ phase = "saved" =>
             /\ Len(allResults) = 2 * Iterations
             /\ Len(preflightResults) = Iterations
             /\ Len(skipResults) = Iterations)
  /\ [][\/ allResults' = allResults
        \/ /\ Len(allResults') = Len(allResults) + 2
           /\ SubSeq(allResults', 1, Len(allResults)) = allResults
           /\ phase = "awaiting"]_vars

\* C13 witness: the run is over with 2 x iterations entries, the skip arm of
\* the first trial and the preflight arm of the last one failed, and in the
\* last trial the skip promise was joined first
C13_Witness ==
  /\ phase = "saved"
  /\ Len(allResults) = 2 * Iterations
  /\ ~Outcome(0, "skip").success
  /\ Outcome(0, "preflight").success
  /\ ~Outcome(Iterations - 1, "preflight").success
  /\ Outcome(Iterations - 1, "skip").success
  /\ revision = "index" /\ ~randomOrder

\* the transfers built so far, as (trial, arm) pairs
Built == {ta \in Trials \X Arms : tx[ta[1]][ta[2]] # NoTx}

\* C14 (as claimed): no two transfers built during one run are identical
\* (same payer, recipient and amount): the two arms' transfers of a trial
\* differ, and an arm's transfer of trial i differs from its transfer of
\* every other trial.
C14_RequestsDistinct ==
  \A x \in Built, y \in Built : x # y => tx[x[1]][x[2]] # tx[y[1]][y[2]]

\* C14, what the code does: the two transfers of one trial always differ (in
\* payer and recipient, or in amount), and across trials an arm's transfers
\* differ in the revision that adds the iteration to the amount
C14_DistinctWithinTrial ==
  /\ \A t \in Trials :
       <<t, "preflight">> \in Built => tx[t]["preflight"] # tx[t]["skip"]
  /\ revision = "index" => C14_RequestsDistinct

\* C15 (as claimed): in every iteration the transfer sent with skipPreflight
\* = true has a different lamport amount than the one sent with skipPreflight
\* = false in the same iteration.
C15_ArmsDifferInAmount ==
  \A t \in Trials :
    <<t, "skip">> \in Built => tx[t]["skip"].lamports # tx[t]["preflight"].lamports

\* C15, what the code does: the older revision adds 1 lamport on the skip
\* arm; the later one gives both arms amountLamports + iteration and tells
\* them apart by payer and recipient
C15_ArmsDifferInAmountOrParties ==
  \A t \in Trials :
    <<t, "skip">> \in Built =>
      IF revision = "index"
        THEN /\ tx[t]["skip"].lamports = tx[t]["preflight"].lamports
             /\ tx[t]["skip"].payer # tx[t]["preflight"].payer
             /\ tx[t]["skip"].recipient # tx[t]["preflight"].recipient
        ELSE tx[t]["skip"].lamports = tx[t]["preflight"].lamports + 1

\* C16: a trial-level error is fatal: once an error has escaped from a trial
\* (trial i) the run is in the error exit state and stays there: no arm of a
\* later trial is ever dispatched, nothing more is pushed, analyzeResults is
\* not invoked and neither the JSON nor the CSV file is written.
C16_TrialErrorIsFatal ==
  /\ [](escaped # "" =>
          /\ phase = "failed"
          /\ Len(allResults) = 2 * i
          /\ \A j \in Trials, a \in Arms : j > i => pc[j][a] = "idle"
          /\ \A a \in Arms : ~InFlight(i, a)
          /\ analysis = {}
          /\ preflightResults = <<>> /\ skipResults = <<>>
          /\ files = {})
  /\ [][escaped = ""]_vars

\* C16 witness: building the second trial threw after the first trial's
\* pair was pushed; the run is in the error exit state with nothing saved
C16_Witness ==
  /\ escaped = BuildError
  /\ phase = "failed"
  /\ i = 1
  /\ Recorded(0)
  /\ \E a \in Arms : Outcome(0, a).success
  /\ files = {}

\* the summary analyzeResults returned
Summary == CHOOSE x \in analysis : TRUE

\* the number of successful outcomes in a list
SuccessCount(rs) == Cardinality({k \in DOMAIN rs : rs[k].success})

\* C17: for every pair of per-arm outcome lists analyzeResults returns (it
\* raises no error), and the returned statisticalTest is non-null if and only
\* if both arms have at least 2 successful outcomes; the test is then run on
\* the two arms' successful durations.
C17_TestIffTwoSuccessesEach ==
  phase = "returned" =>
    /\ Cardinality(analysis) = 1
    /\ Summary.statisticalTest # {} <=>
         (SuccessCount(preflightResults) >= 2 /\ SuccessCount(skipResults) >= 2)
    /\ Cardinality(Summary.statisticalTest) <= 1
    /\ \A test \in Summary.statisticalTest :
         /\ Len(test.sample1) = SuccessCount(preflightResults)
         /\ Len(test.sample2) = SuccessCount(skipResults)
         /\ \A k \in DOMAIN test.sample1 :
              test.sample1[k] = Successful(preflightResults)[k].totalDurationMs
         /\ \A k \in DOMAIN test.sample2 :
              test.sample2[k] = Successful(skipResults)[k].totalDurationMs

\* C17 witness: analyzeResults returned a test for two arms with 2 successes
\* each, of different durations
C17_Witness ==
  /\ phase = "returned"
  /\ Summary.statisticalTest # {}
  /\ SuccessCount(preflightResults) = 2 /\ SuccessCount(skipResults) = 2
  /\ \E test \in Summary.statisticalTest : test.sample1 # test.sample2

\* C18: latency deltas are formed by position: there are as many as the
\* smaller of the two arms' numbers of successful outcomes, and the k-th is
\* the duration of the k-th successful preflight outcome minus that of the
\* k-th successful skip outcome, positions counted in each arm's
\* success-filtered list in trial order, whatever trials the two belong to.
C18_LatencyDeltasPositional ==
  phase = "returned" =>
    LET sp == Successful(preflightResults)
        ss == Successful(skipResults)
        d == Summary.totalLatencyDiff
    IN  /\ Len(sp) = SuccessCount(preflightResults)
        /\ Len(ss) = SuccessCount(skipResults)
        /\ \A k \in 1 .. Len(sp) - 1 : sp[k].iteration < sp[k + 1].iteration
        /\ \A k \in 1 .. Len(ss) - 1 : ss[k].iteration < ss[k + 1].iteration
        /\ Len(d) = Min(SuccessCount(preflightResults), SuccessCount(skipResults))
        /\ \A k \in 1 .. Len(d) : d[k] = sp[k].totalDurationMs - ss[k].totalDurationMs

\* C18 witness: the arms have different numbers of successes, and the one
\* delta is positive and taken between outcomes of different trials
C18_Witness ==
  /\ phase = "returned"
  /\ SuccessCount(preflightResults) = 1 /\ SuccessCount(skipResults) = 2
  /\ Len(Summary.totalLatencyDiff) = 1
  /\ Summary.totalLatencyDiff[1] > 0
  /\ Successful(preflightResults)[1].iteration # Successful(skipResults)[1].iteration

\* paired positions at which both outcomes carry a slot
SlotPositions ==
  {k \in 1 .. Min(SuccessCount(preflightResults), SuccessCount(skipResults)) :
     /\ HasField(Successful(preflightResults)[k], "slot")
     /\ HasField(Successful(skipResults)[k], "slot")}

\* C19: a slot delta is produced for a paired position exactly when both
\* outcomes at that position carry a slot, in position order, and it is the
\* skip outcome's slot minus the preflight outcome's slot: it is negative
\* exactly when the skip transaction landed in the earlier slot; there are
\* never more slot deltas than latency deltas.
C19_SlotDeltasWhenBothSlots ==
  phase = "returned" =>
    LET sp == Successful(preflightResults)
        ss == Successful(skipResults)
        d == Summary.slotDiff
    IN  /\ Len(d) = Cardinality(SlotPositions)
        /\ \A k \in SlotPositions :
             LET n == Cardinality({j \in SlotPositions : j <= k})
             IN  /\ d[n] = ss[k].slot - sp[k].slot
                 /\ d[n] < 0 <=> ss[k].slot < sp[k].slot
        /\ Len(d) <= Len(Summary.totalLatencyDiff)

\* C19 witness: two paired positions, only the second with a slot on both
\* sides, and its delta is negative
C19_Witness ==
  /\ phase = "returned"
  /\ SlotPositions = {2}
  /\ HasField(Successful(skipResults)[1], "slot")
  /\ Summary.slotDiff = <<-2>>
  /\ Len(Summary.totalLatencyDiff) = 2

\* C20 (as claimed): every latency difference and every slot difference of
\* the comparison is taken between the two outcomes of one simultaneous
\* pair, a preflight and a skip outcome with the same iteration number,
\* whatever arms succeeded or failed.
C20_DeltasWithinOnePair ==
  phase = "saved" =>
    LET sp == Successful(preflightResults)
        ss == Successful(skipResults)
    IN  /\ \A k \in 1 .. Len(Summary.totalLatencyDiff) : sp[k].iteration = ss[k].iteration
        /\ \A k \in SlotPositions : sp[k].iteration = ss[k].iteration

\* C20, what the code does: the paired outcomes belong to the same trial as
\* long as the failures before them are symmetric
C20_DeltasWithinOnePairIfSymmetric ==
  phase = "saved" =>
    LET sp == Successful(preflightResults)
        ss == Successful(skipResults)
    IN  (\A k \in DOMAIN preflightResults :
           preflightResults[k].success = skipResults[k].success) =>
          \A k \in 1 .. Len(Summary.totalLatencyDiff) : sp[k].iteration = ss[k].iteration

\* what the report shows under a section name (empty if the section is not
\* printed)
Shown(name) == {report[k].shown : k \in {j \in DOMAIN report : report[j].section = name}}

C22_ConstantTransportSummaries ==
  phase = "printed" =>
    /\ \E l \in Shown("latency difference") :
         l.count = stub.n /\ l.mean = 100 * (stub.a - stub.b)
    /\ \E d \in Shown("slot difference") : d.mean = 100 * (stub.t - stub.s)
    /\ \E e \in Shown("expected latency") : e.mean = 100 * 400 * (stub.t - stub.s)
    /\ \E c \in Shown("discrepancy") :
         c.discrepancy = 100 * ((stub.a - stub.b) - 400 * (stub.t - stub.s))

\* C22, what the code does: the summaries are as claimed whenever both
\* constant slots are nonzero, as for 100 ms, 90 ms, slots 5 and 5 over 10
\* trials: 10, 0, 0 and 10
C22_ConstantTransportNonzeroSlots ==
  (stub.s # 0 /\ stub.t # 0) => C22_ConstantTransportSummaries

\* C22: the example of the claim is among the runs checked
C22_Example ==
  /\ phase = "printed"
  /\ stub = [n |-> 10, a |-> 100, b |-> 90, s |-> 5, t |-> 5]
  /\ \E l \in Shown("latency difference") : l.count = 10 /\ l.mean = 1000
  /\ \E d \in Shown("slot difference") : d.mean = 0
  /\ \E e \in Shown("expected latency") : e.mean = 0
  /\ \E c \in Shown("discrepancy") : c.discrepancy = 1000

\* the durations of the successful outcomes of a list, in order
SuccessDurations(rs) ==
  LET ks == {k \in DOMAIN rs : rs[k].success}
      nth(n) == CHOOSE k \in ks : Cardinality({j \in ks : j <= k}) = n
  IN  [n \in 1 .. Cardinality(ks) |-> rs[nth(n)].totalDurationMs]

\* the section analyzeResults would report for an arm from its outcomes alone
OwnSection(rs) ==
  [successCount |-> SuccessCount(rs),
   failureCount |-> Len(rs) - SuccessCount(rs),
   successRate |-> [n |-> 100 * SuccessCount(rs), d |-> Len(rs)],
   totalStats |-> IF SuccessCount(rs) = 0 THEN {}
                  ELSE {CalculateStatistics(SuccessDurations(rs))}]

\* the section reported for an arm, and its outcome list
SectionOf(a) == IF a = "preflight" THEN Summary.preflightResults ELSE Summary.skipResults
ListOf(a) == IF a = "preflight" THEN preflightResults ELSE skipResults

\* C23: when one arm failed in every trial (at least one trial), its section
\* has successRate 0 and no totalStats, there is no statisticalTest, and the
\* other arm's successCount, failureCount, successRate and totalStats are
\* those computed from the other arm's own outcomes alone.
C23_FailingArmLeavesOtherUnaffected ==
  phase = "returned" =>
    \A a \in Arms :
      (Len(ListOf(a)) >= 1 /\ SuccessCount(ListOf(a)) = 0) =>
        /\ SectionOf(a).successRate.n = 0 /\ SectionOf(a).successRate.d > 0
        /\ SectionOf(a).successCount = 0
        /\ SectionOf(a).totalStats = {}
        /\ Summary.statisticalTest = {}
        /\ SectionOf(Other(a)) = OwnSection(ListOf(Other(a)))

\* C23 witness: the preflight arm failed in both trials, the skip arm
\* succeeded in both with different durations: its rate is 100 and its
\* statistics are reported
C23_Witness ==
  /\ phase = "returned"
  /\ Len(preflightResults) = 2 /\ SuccessCount(preflightResults) = 0
  /\ SuccessCount(skipResults) = 2
  /\ Summary.skipResults.successRate = [n |-> 200, d |-> 2]
  /\ \E st \in Summary.skipResults.totalStats : st.min = 90 /\ st.max = 100
  /\ Summary.statisticalTest = {}

\* the sections printSummary prints only under a condition, each with the
\* summary value it is printed from
ConditionalSections ==
  [x \in {"preflight total duration", "skip total duration", "latency difference",
          "slot difference", "statistical test"} |->
     CASE x = "preflight total duration" -> Summary.preflightResults.totalStats
       [] x = "skip total duration" -> Summary.skipResults.totalStats
       [] x = "latency difference" -> Summary.latencyDifferenceMs
       [] x = "slot difference" -> Summary.slotDifference
       [] OTHER -> Summary.statisticalTest]

\* the names of the sections the report contains
Printed == {report[k].section : k \in DOMAIN report}

\* C24 as claimed: the report never omits a section: the per-arm duration
\* statistics, latency difference, slot difference, expected latency,
\* discrepancy and significance test are each emitted for every summary.
C24_NoSectionOmitted ==
  phase = "printed" =>
    (DOMAIN ConditionalSections) \cup {"expected latency", "discrepancy"} \subseteq Printed

\* C24, amended: the success-rate lines and the success-rate difference are
\* always emitted; each of the per-arm duration statistics, latency
\* difference, slot difference and significance test is emitted exactly when
\* the summary holds its data, showing that data, and is left out otherwise;
\* the expected latency is emitted exactly when the slot difference is, and
\* the discrepancy exactly when both the slot and latency differences are.
C24_SectionsPrintedIffDataPresent ==
  phase = "printed" =>
    /\ {"preflight success rate", "skip success rate", "success rate difference"}
         \subseteq Printed
    /\ \A x \in DOMAIN ConditionalSections : Shown(x) = ConditionalSections[x]
    /\ "expected latency" \in Printed <=> Summary.slotDifference # {}
    /\ "discrepancy" \in Printed <=>
         (Summary.slotDifference # {} /\ Summary.latencyDifferenceMs # {})

\* C24 witness: a printed report without the preflight arm's duration
\* statistics, the differences and the test, with the skip arm's statistics
C24_Witness ==
  /\ phase = "printed"
  /\ Len(preflightResults) = 2 /\ SuccessCount(preflightResults) = 0
  /\ SuccessCount(skipResults) = 2
  /\ Printed = {"configuration", "preflight success rate", "skip success rate",
                "skip total duration", "success rate difference"}

\* the values of a sequence
Values(xs) == {xs[k] : k \in DOMAIN xs}

\* C25: calculateStatistics of the empty sequence returns count 0 and min,
\* max, mean, median, p95, p99 and stdDev all 0 (a value, not an error).
C25_EmptyIsAllZero ==
  \A st \in statistics[1] :
    sample1 = <<>> =>
      /\ st.count = 0 /\ st.min = 0 /\ st.max = 0 /\ st.mean = 0
      /\ st.median = 0 /\ st.p95 = 0 /\ st.p99 = 0 /\ st.stdDev = 0
      /\ DOMAIN st = {"count", "min", "max", "mean", "median", "p95", "p99", "stdDev"}

\* C25 witness: the statistics of the empty sequence were returned
C25_Witness == sample1 = <<>> /\ statistics[1] # {}

\* C26: for a non-empty input, min <= median <= max and
\* min <= p95 <= p99 <= max, and min, max, median, p95 and p99 are each an
\* element of the input.
C26_OrderStatisticsAreOrderedElements ==
  \A st \in statistics[1] :
    sample1 # <<>> =>
      /\ st.min <= st.median /\ st.median <= st.max
      /\ st.min <= st.p95 /\ st.p95 <= st.p99 /\ st.p99 <= st.max
      /\ {st.min, st.max, st.median, st.p95, st.p99} \subseteq Values(sample1)
      /\ \A v \in Values(sample1) : st.min <= v /\ v <= st.max

\* C26 witness: a sample of 100 values given out of order whose 95th and
\* 99th ranks and maximum all differ
C26_Witness ==
  /\ Len(sample1) = 100 /\ sample1[1] = 2
  /\ \E st \in statistics[1] :
       st.min = 0 /\ st.median = 0 /\ st.p95 = 0 /\ st.p99 = 1 /\ st.max = 2

\* C27: calculateStatistics is order-independent: a sequence and a
\* permutation of it yield identical count, min, max, mean, median, p95, p99
\* and stdDev.
C27_PermutationInvariant ==
  (statistics[1] # {} /\ statistics[2] # {}) => statistics[1] = statistics[2]

\* C27 witness: both a sample and a different ordering of it were summarised,
\* neither being sorted
C27_Witness ==
  /\ sample1 = <<120, 90, 100>> /\ sample2 = <<100, 120, 90>>
  /\ statistics[1] # {} /\ statistics[2] # {}
  /\ \E st \in statistics[2] : st.min = 90 /\ st.median = 100 /\ st.max = 120

\* C28: welchTTest returns exactly {tStatistic: 0, pValue: 1,
\* degreesOfFreedom: 0} whenever either sample has fewer than 2 observations,
\* whatever the other sample holds.
C28_DegenerateTestBelowTwo ==
  (Len(sample1) < 2 \/ Len(sample2) < 2) =>
    \A r \in tTest :
      /\ r.tStatistic = [sign |-> 0, n |-> 0, d |-> 1]
      /\ r.pValue = [kind |-> "exact", n |-> 1, d |-> 1]
      /\ r.degreesOfFreedom = [n |-> 0, d |-> 1]

\* C28 witness: the test of an empty sample against three differing values,
\* and of one value against two, returned
C28_Witness ==
  /\ tTest # {}
  /\ \/ sample1 = <<>> /\ sample2 = <<98, 100, 102>>
     \/ sample1 = <<98, 102>> /\ sample2 = <<100>>

\* the p-value is 1 or within 1e-8 of it: exactly 1, or the normal
\* approximation at t = 0, where erf(0) evaluates to about 1e-9
ApproximatelyOne(p) ==
  \/ p = [kind |-> "exact", n |-> 1, d |-> 1]
  \/ p.kind = "normal" /\ IsZero(p.t)

\* C29: for every sample s of at least 2 observations, welchTTest(s, s) has
\* tStatistic 0 and pValue 1 (up to approximation) and cohensD(s, s) is 0,
\* samples of equal values included.
C29_IdenticalSamplesShowNoDifference ==
  (sample1 = sample2 /\ Len(sample1) >= 2) =>
    /\ \A r \in tTest : IsZero(r.tStatistic) /\ ApproximatelyOne(r.pValue)
    /\ \A d \in effectSize : IsZero(d)

\* C29 restricted to samples whose values are not all equal
C29_IdenticalVaryingSamplesShowNoDifference ==
  (sample1 = sample2 /\ Len(sample1) >= 2 /\ Cardinality(Values(sample1)) >= 2) =>
    /\ \A r \in tTest : IsZero(r.tStatistic) /\ ApproximatelyOne(r.pValue)
    /\ \A d \in effectSize : IsZero(d)

\* C29: the five latencies against themselves give t = 0, p = 1, d = 0
C29_Example ==
  /\ sample1 = LatencySample /\ sample2 = LatencySample
  /\ \E r \in tTest : IsZero(r.tStatistic) /\ ApproximatelyOne(r.pValue)
                        /\ r.degreesOfFreedom = [n |-> 1600000000, d |-> 200000000]
  /\ \E d \in effectSize : IsZero(d)

\* C30: for two samples of at least 2 observations each, the sign of
\* cohensD(sample1, sample2) is the sign of mean1 - mean2: positive,
\* negative, or zero when the means are equal.
C30_EffectSizeHasSignOfMeanDifference ==
  (Len(sample1) >= 2 /\ Len(sample2) >= 2) =>
    \A d \in effectSize :
      /\ ~IsNaN(d)
      /\ d.sign = Sign(Sum(sample1) * Len(sample2) - Sum(sample2) * Len(sample1))
      /\ d.sign = 0 <=> IsZero(d)

\* C30 where some pooled variance exists: one of the samples varies
C30_SignOfMeanDifferenceWhenSomeVariance ==
  (/\ Len(sample1) >= 2 /\ Len(sample2) >= 2
   /\ Cardinality(Values(sample1) \cup Values(sample2)) >= 2) =>
    \A d \in effectSize :
      /\ ~IsNaN(d)
      /\ d.sign = Sign(Sum(sample1) * Len(sample2) - Sum(sample2) * Len(sample1))
      /\ d.sign = 0 <=> IsZero(d)

\* what the dispatch of arm a of trial t ended with: the value its promise
\* was fulfilled with, or the object built from its rejection reason
DispatchOutcome(t, a) ==
  IF pc[t][a] = "fulfilled" THEN result[t][a]
  ELSE [iteration |-> t, skipPreflight |-> (a = "skip"), submissionDurationMs |-> 0,
        success |-> FALSE, error |-> thrown[t][a]]

\* C31: whatever the random order, the pair a trial returns (pushed onto
\* allResults as is) has the preflight arm's outcome (skipPreflight false)
\* first and the skip arm's outcome (skipPreflight true) second, both with
\* the trial's iteration index, each being the result of its own arm's
\* dispatch, rejected arms included.
C31_ArmIdentityIndependentOfOrder ==
  \A t \in Trials :
    2 * t + 2 <= Len(allResults) =>
      /\ ~allResults[2 * t + 1].skipPreflight
      /\ allResults[2 * t + 2].skipPreflight
      /\ allResults[2 * t + 1].iteration = t
      /\ allResults[2 * t + 2].iteration = t
      /\ allResults[2 * t + 1] = DispatchOutcome(t, "preflight")
      /\ allResults[2 * t + 2] = DispatchOutcome(t, "skip")

\* C31 witness: a pair joined skip-first was returned; its preflight arm
\* failed and its skip arm was confirmed, and each outcome is in its place
C31_Witness ==
  /\ phase = "delay" /\ ~randomOrder
  /\ Len(allResults) = 2 * i + 2
  /\ ~result[i]["preflight"].success /\ result[i]["skip"].success
  /\ ~allResults[2 * i + 1].success /\ allResults[2 * i + 2].success

\* C31, a rejected arm: joined preflight-first, the skip arm's promise
\* rejected and its outcome built from the rejection reason
C31_RejectedArmKeepsItsPlace ==
  /\ phase = "delay" /\ randomOrder
  /\ Len(allResults) = 2 * i + 2
  /\ pc[i]["skip"] = "rejected" /\ pc[i]["preflight"] = "fulfilled"

\* the element at 0-based index k of the ascending order of xs: the value
\* with at most k elements below it and more than k elements not above it
ElementAtRank(xs, k) ==
  CHOOSE v \in Values(xs) :
    /\ Cardinality({j \in DOMAIN xs : xs[j] < v}) <= k
    /\ Cardinality({j \in DOMAIN xs : xs[j] <= v}) > k

\* max(0, ceil(p / 100 x count) - 1), the ceiling being the least integer m
\* with 100 m >= p count
NearestRank(p, count) ==
  LET m == CHOOSE m \in 0 .. count : 100 * m >= p * count /\ 100 * (m - 1) < p * count
  IN  IF m - 1 < 0 THEN 0 ELSE m - 1

\* C32: for a non-empty input of length count, median is the element at
\* index floor(count / 2) of the ascending-sorted input, and p95 and p99 are
\* the elements at index max(0, ceil(p / 100 x count) - 1) for p = 95, 99;
\* [10, 20, 30, 40, 50] gives median 30 and p95 50.
C32_MedianAndPercentileRanks ==
  \A st \in statistics[1] :
    sample1 # <<>> =>
      /\ st.median = ElementAtRank(sample1, Len(sample1) \div 2)
      /\ st.p95 = ElementAtRank(sample1, NearestRank(95, Len(sample1)))
      /\ st.p99 = ElementAtRank(sample1, NearestRank(99, Len(sample1)))
      /\ sample1 \in ExampleSamples =>
           st.count = 5 /\ st.min = 10 /\ st.max = 50 /\ st.mean = 3000
           /\ st.median = 30 /\ st.p95 = 50

\* C32 witness: the statistics of the five values 10..50, given out of
\* order, were returned
C32_Witness ==
  /\ sample1 = <<30, 10, 50, 20, 40>>
  /\ \E st \in statistics[1] : st.median = 30 /\ st.p95 = 50 /\ st.p99 = 50

\* C32, even count: the median of two values is the larger one
C32_EvenCountTakesUpperMiddle ==
  /\ sample1 = <<100, 90>>
  /\ \E st \in statistics[1] : st.median = 100

\* the operations of the alternating runner that are in flight
OperationsInFlight == {<<t, a>> \in Trials \X Arms : pc[t][a] = "inflight"}

\* C33: in the alternating runner step k of 0..2N-1 runs the preflight arm
\* when k is even and the skip arm when k is odd, with iteration number
\* floor(k / 2); a step starts only after the previous step's operation has
\* resolved and been recorded (never two in flight); a failed operation is
\* recorded with its error message and the loop goes on; the run ends with
\* exactly N outcomes per arm.
C33_AlternatingStrictlySequential ==
  /\ \A k \in DOMAIN issued :
       /\ issued[k].skipPreflight = ((k - 1) % 2 = 1)
       /\ issued[k].iteration = (k - 1) \div 2
  /\ Cardinality(OperationsInFlight) <= 1
  /\ Len(issued) <= Len(allResults) + 1
  /\ Len(issued) = Len(allResults) + 1 <=> phase = "awaiting"
  /\ \A k \in DOMAIN allResults :
       /\ allResults[k].iteration = issued[k].iteration
       /\ allResults[k].skipPreflight = issued[k].skipPreflight
       /\ ~allResults[k].success =>
            /\ HasField(allResults[k], "error")
            /\ allResults[k].error = thrown[(k - 1) \div 2][ArmOf(allResults[k])]
            /\ allResults[k].error # ""
  /\ phase # "failed"
  /\ phase \in {"complete", "saved"} => Len(allResults) = 2 * Iterations
  /\ phase = "saved" =>
       Len(preflightResults) = Iterations /\ Len(skipResults) = Iterations

\* C33 witness: the run ended with N outcomes per arm although its first
\* operation failed, the failure being recorded with its message
C33_Witness ==
  /\ revision = "alternating" /\ phase = "saved"
  /\ Len(preflightResults) = Iterations /\ Len(skipResults) = Iterations
  /\ ~allResults[1].success /\ allResults[1].error = "blockhash not found"
  /\ allResults[2].success /\ allResults[2].skipPreflight

\* the submit-and-confirm calls issued so far: one per dispatched arm
SubmitCalls == Cardinality({<<t, a>> \in Trials \X Arms : pc[t][a] # "idle"})

\* the trial loop is over
LoopFinished == phase \in {"complete", "saved"}

\* C34 as claimed: under the fairness assumption the run eventually finishes
\* its trial loop, having issued exactly 2N submit-and-confirm calls.
C34_RunFinishesTrialLoop ==
  <>(LoopFinished /\ SubmitCalls = 2 * Iterations)

\* a step neither dispatches an operation again nor cancels one: an arm
\* leaves "idle" once, for "inflight", and goes on only from a call that
\* returned; and an arm's lookup count grows by one lookup at a time, within
\* the trial in progress, and restarts only when a new trial is dispatched
NoRedispatchNoCancel ==
  /\ \A t \in Trials, a \in Arms :
       \/ pc'[t][a] = pc[t][a]
       \/ /\ pc'[t][a] # "idle"
          /\ pc'[t][a] = "inflight" => pc[t][a] = "idle"
          /\ pc[t][a] \notin {"fulfilled", "rejected"}
  /\ \A a \in Arms :
       \/ lookups'[a] = lookups[a]
       \/ lookups'[a] = lookups[a] + 1 /\ pc'[i][a] = "lookup" /\ i' = i
       \/ lookups'[a] = 0 /\ pc'[i'][a] = "inflight" /\ pc[i'][a] = "idle"

\* C34, amended: under the fairness assumption a run that has entered its
\* trial loop eventually either finishes the loop, having issued exactly 2N
\* submit-and-confirm calls, or is ended by an error thrown while a trial's
\* transfers are built, before that trial dispatches anything; each
\* submitted transaction is looked up at most 3 times (at most 6N lookups for
\* the N trials of 2 arms), and no operation is re-dispatched or cancelled.
C34_LoopEndsOrBuildErrorEndsRun ==
  /\ <>(\/ LoopFinished /\ SubmitCalls = 2 * Iterations
        \/ phase = "failed" /\ escaped = BuildError /\ SubmitCalls = 2 * i)
  /\ [](/\ \A a \in Arms : lookups[a] <= maxRetries
        /\ SubmitCalls <= 2 * Iterations
        /\ LoopFinished => SubmitCalls = 2 * Iterations
        /\ \A t \in Trials, a \in Arms : pc[t][a] = "inflight" => thrown[t][a] = "")
  /\ [][NoRedispatchNoCancel]_vars

\* C34 witness: the loop has finished after 2N submit calls, both arms of the
\* last trial having used all 3 lookups
C34_Witness ==
  /\ LoopFinished
  /\ SubmitCalls = 2 * Iterations
  /\ \A a \in Arms : lookups[a] = maxRetries

\* ---- C35

\* a trial has been dispatched after the balance pre-check
DispatchedAfterCheck == phase = "awaiting" /\ balance # NoBalance

\* C35: the balance pre-check is sufficient for the run: no trial is dispatched
\* unless each paying account's checked balance is at least the total number
\* of lamports that all of the run's transfers from that account will move
\* (the sum over trials 0 .. N - 1 of that account's per-trial amounts).
C35_PreCheckCoversAllTransfers ==
  DispatchedAfterCheck =>
    \A p \in DOMAIN balance : balance[p] >= TotalTransfers(revision, p)

\* what the pre-check does establish: a trial is dispatched only when every
\* paying account's checked balance is at least the required balance
C35_PreCheckCoversRequiredBalance ==
  DispatchedAfterCheck =>
    \A p \in DOMAIN balance : balance[p] >= RequiredBalance(revision)

\* "part_000": a trial is dispatched from an account that passed the check
\* with exactly the required balance, which its transfers exceed
C35_DispatchedShort ==
  /\ DispatchedAfterCheck
  /\ revision = "part_000"
  /\ balance["payer"] = RequiredBalance("part_000")
  /\ TotalTransfers("part_000", "payer") = RequiredBalance("part_000") + Iterations

\* "index": both payers pass with the required balance and payer1's transfers
\* exceed it
C35_PairedDispatchedShort ==
  /\ DispatchedAfterCheck
  /\ revision = "index"
  /\ balance["payer1"] = RequiredBalance("index")
  /\ TotalTransfers("index", "payer1") > RequiredBalance("index")

\* ---- C36

\* |t1| < |t2| for statistics held as sign * sqrt(n / d), both finite
AbsLess(t1, t2) ==
  /\ t1.d > 0
  /\ t2.d > 0
  /\ Reduced([n |-> t1.n, d |-> t1.d]).n * Reduced([n |-> t2.n, d |-> t2.d]).d
       < Reduced([n |-> t2.n, d |-> t2.d]).n * Reduced([n |-> t1.n, d |-> t1.d]).d

\* the p-value is a number between 0 and 1
InUnitInterval(p) ==
  \/ p.kind = "exact" /\ p.d > 0 /\ 0 <= p.n /\ p.n <= p.d
  \/ p.kind = "beta" /\ WholeDf(p.df)
       /\ 0 <= PValueSquared(p).n /\ PValueSquared(p).n <= PValueSquared(p).d
  \/ p.kind = "beta" /\ ~WholeDf(p.df)
  \/ p.kind = "normal"

\* the test of a pair of samples at the same degrees of freedom as r and
\* with a larger |tStatistic|
LargerT(r, q) ==
  /\ ~IsNaN(r.degreesOfFreedom)
  /\ Reduced(q.degreesOfFreedom) = Reduced(r.degreesOfFreedom)
  /\ AbsLess(r.tStatistic, q.tStatistic)
  /\ Evaluable(r.pValue)
  /\ Evaluable(q.pValue)

\* C36: for samples of size >= 2 the reported pValue lies in [0, 1] and, at
\* fixed degrees of freedom, never increases when |tStatistic| increases, so
\* that `significant` (pValue < 0.05) is never true for a smaller |t| while
\* false for a larger |t|. The test returned is compared with the tests of
\* the pairs of latencies 20 ms apart.
C36_PValueIsTailProbability ==
  (Len(sample1) >= 2 /\ Len(sample2) >= 2) =>
    \A r \in tTest :
      /\ InUnitInterval(r.pValue)
      /\ \A pair \in SpreadPairs :
           LET q == WelchTTest(pair[1], pair[2])
           IN  LargerT(r, q) =>
                 /\ ~PValueLess(r.pValue, q.pValue)
                 /\ ~(Significant(r.pValue) /\ ~Significant(q.pValue))

\* 90, 110 against 91, 111 is returned as significant (t^2 = 1/200, two
\* degrees of freedom) while 90, 110 against 100, 120, with the same degrees
\* of freedom and t^2 = 1/2, is not
C36_SignificantAtSmallerT ==
  /\ sample1 = <<90, 110>>
  /\ sample2 = <<91, 111>>
  /\ \E r \in tTest :
       LET q == WelchTTest(<<90, 110>>, <<100, 120>>)
       IN  /\ LargerT(r, q)
           /\ Significant(r.pValue)
           /\ ~Significant(q.pValue)
           /\ PValueLess(r.pValue, q.pValue)

\* with every value of both samples the same and different between them the
\* p-value returned is NaN (the division of C29)
C36_PValueNotANumber ==
  /\ sample1 = <<98, 98>>
  /\ sample2 = <<100, 100>>
  /\ \E r \in tTest : ~InUnitInterval(r.pValue)

\* wherever the p-value is a number it lies in [0, 1]
C36_NumbersLieInUnitInterval ==
  \A r \in tTest :
    (r.pValue.kind = "exact" /\ r.pValue.d = 0) \/ InUnitInterval(r.pValue)

====
